---- MODULE Spec2Model ----
(***************************************************************************)
(* Model of soul::audioplayer::AudioPlayerVenue and its AudioPlayerSession *)
(* (soul_AudioPlayer.cpp).                                                 *)
(*                                                                         *)
(* Three execution contexts touch the state modelled here:                 *)
(*   - the control thread, which calls createSession, load, link, start,   *)
(*     stop, unload, setStateChangeCallback and destroys sessions;         *)
(*   - the audio callback thread, which runs audioDeviceIOCallback;        *)
(*   - both synchronise on activeSessionLock only.                         *)
(* A control-thread call is broken into one step per access to state that  *)
(* the other thread can see (the lock, activeSessions) and per setState,   *)
(* so the intermediate states of a call are states of the model.           *)
(***************************************************************************)
EXTENDS Integers, Sequences, FiniteSets, TLC

\* ---------------------------------------------------------------- bounds
NumSessions == 2
BlockSize == 15000
MaxTotalSamples == 45000

MaxChannels == 1            \* active device channels per direction
MaxAdapters == 2            \* stream/event adapters constructed in a run
MaxMidiPerBlock == 2        \* MIDI messages collected for one block
EventFIFOCapacity == 2      \* room in a session's MIDI event FIFO
StartTime == 10             \* wall-clock time at construction, in timer ticks
MaxTime == 19               \* last wall-clock tick looked at
MaxWrapNumber == 6          \* wrap is tried on -MaxWrapNumber..MaxWrapNumber
MaxWrapRange == 4           \* and on ranges up to this, and on int32's ends
NumPointers == 2            \* RefCountingPtr instances
NumObjects == 2             \* reference-counted objects
MaxRawPointers == 2         \* raw pointers adopted or handed out

\* ------------------------------------------------------ program constants
numWarmUpSamples == 15000
timerHz == 3
stallTimeoutSeconds == 2
collectorSampleRate == 44100

Sessions == 1..NumSessions
States == {"empty", "loaded", "linked", "running"}

VARIABLES
    alive,                  \* alive[s]: the session object s exists
    state,                  \* AudioPlayerSession::state
    performer,              \* what the session's Performer holds
    stateChangeCallback,    \* stateChangeCallback[s]: a callback is installed
    activeSessions,         \* AudioPlayerVenue::activeSessions (a vector)
    activeSessionLock,      \* owner of the recursive mutex
    ctlOp, ctlSession, ctlPc,   \* the control thread's current call
    preState, preActive,    \* state and activeSessions when the call began
    ret,                    \* return value of the last completed call
    performerOk,            \* what the Performer's load/link reported
    events,                 \* what the current call has done so far
    audioPc, audioIndex,    \* the audio thread's position in the callback
    blockSessions,          \* sessions given processBlock in this callback
    totalSamplesProcessed,
    \* the audio device and the endpoints the Venue publishes
    audioDevice,            \* audioDevice != nullptr
    numInputChannels, numOutputChannels,    \* the device's active channels
    deviceSampleRate, deviceBlockSize, deviceXRuns,
    sourceEndpoints, sinkEndpoints,
    \* a session's device snapshot and adapters
    currentRateAndBlockSize,
    audioDeviceInputStream, audioDeviceOutputStream, midiEventQueue,
    streamSource, streamSink,   \* the callbacks a Performer endpoint holds
    adapterCount,           \* adapters constructed so far
    preAdapters,            \* a connect call's arguments, and the session's
                            \* adapters when it began
    performerXRuns, status, \* Performer::getXRuns() and the last getStatus()
    \* MIDI input
    hasMidiCollector, midiCollector, incomingMIDI,
    delivered,              \* what a session's event queue handed over in
                            \* the callback under way
    midiMessage, packedValue,
    \* the stall watchdog
    now, audioCallbackCount, lastCallbackCount, lastCallbackCountChange,
    terminations,
    lastAdvance, checkedAt, \* when the counter last advanced / was last checked
    \* the callback under way
    blockSteps,             \* what the last processBlock did, in order
    hardwareOutput,         \* the device's output buffers
    loadMeasurer,           \* the last call made on the CPULoadMeasurer
    deviceStarted,          \* the device is calling back
    streamResult,           \* what the last stream callback posted or returned
    \* the timer
    timerInterval, lastMIDIDeviceCheck,
    \* the library
    wrapCall,               \* wrap's arguments and what it returned
    source,                 \* RefCountingPtr::source of every pointer
    refLog,                 \* the addRef/release calls the pointers made
    \* the device's thread
    aboutToStart            \* where audioDeviceAboutToStart is, and when it
                            \* last returned

deviceVars == << audioDevice, numInputChannels, numOutputChannels,
                 deviceSampleRate, deviceBlockSize, deviceXRuns,
                 sourceEndpoints, sinkEndpoints >>
adapterVars == << audioDeviceInputStream, audioDeviceOutputStream,
                  midiEventQueue, streamSource, streamSink, adapterCount,
                  preAdapters >>
statusVars == << performerXRuns, status >>
midiVars == << hasMidiCollector, midiCollector, incomingMIDI, delivered >>
packVars == << midiMessage, packedValue >>
watchdogVars == << now, audioCallbackCount, lastCallbackCount,
                   lastCallbackCountChange, terminations, lastAdvance,
                   checkedAt >>
callbackVars == << blockSteps, hardwareOutput, loadMeasurer >>
timerVars == << timerInterval, lastMIDIDeviceCheck >>
\* what only the stream callbacks, the device's start and stop and the timer
\* change
libraryVars == << wrapCall, source, refLog >>
quietVars == << deviceStarted, streamResult, timerVars, libraryVars,
               aboutToStart >>

vars == << alive, state, performer, stateChangeCallback, activeSessions,
           activeSessionLock, ctlOp, ctlSession, ctlPc, preState, preActive,
           ret, performerOk, events, audioPc, audioIndex, blockSessions,
           totalSamplesProcessed, deviceVars, currentRateAndBlockSize,
           adapterVars, statusVars, midiVars, packVars, watchdogVars,
           callbackVars, quietVars >>

sessionVars == << alive, state, performer, stateChangeCallback >>
callVars    == << ctlOp, ctlSession, preState, preActive >>
audioVars   == << audioPc, audioIndex, blockSessions, totalSamplesProcessed >>

\* what the session lifecycle leaves alone
controlFrame == << deviceVars, currentRateAndBlockSize, adapterVars,
                   statusVars, midiVars, packVars, watchdogVars,
                   callbackVars, quietVars >>

\* ------------------------------------------------------------- helpers
\* std::lock_guard on the recursive activeSessionLock: a thread gets the lock
\* when no other thread owns it
lockFreeForAll(owner, thread) == TRUE

lockFree(owner, thread) == owner \in {"none", thread}

InSeq(q, s) == \E i \in 1..Len(q) : q[i] = s

isRunningNever(st) == FALSE

isRunning(st) == st = "running"

BoolRet(b) == IF b THEN "true" ELSE "false"

\* ------------------------------------------- the active-session registry
startSessionAlwaysAdds(active, s) == Append(active, s)

startSession(active, s) ==
    IF ~ InSeq(active, s) THEN Append(active, s) ELSE active

startSessionResult == TRUE

stopSessionKeeps(active, s) == active

stopSession(active, s) ==
    IF InSeq(active, s)
      THEN LET i == CHOOSE i \in 1..Len(active) :
                        /\ active[i] = s
                        /\ \A j \in 1..(i - 1) : active[j] # s
           IN  SubSeq(active, 1, i - 1) \o SubSeq(active, i + 1, Len(active))
      ELSE active

stopSessionResult == TRUE

\* ---------------------------------------------------------- setState
CallbackEvent(st) == "callback_" \o st

setStateEventsAlways(old, new, installed) ==
    <<"set_" \o new>> \o (IF installed THEN <<CallbackEvent(new)>> ELSE <<>>)

setStateEvents(old, new, installed) ==
    IF old # new
      THEN <<"set_" \o new>> \o (IF installed THEN <<CallbackEvent(new)>> ELSE <<>>)
      ELSE <<>>

setState(s, newState) ==
    /\ state' = [state EXCEPT ![s] = newState]
    /\ events' = events \o setStateEvents(state[s], newState, stateChangeCallback[s])

\* ------------------------------------------- the device and its endpoints
addEndpoint(list, kind, id, vectorSize, audioChannelIndex, isMIDI) ==
    Append(list, [endpointID |-> id, name |-> id, kind |-> kind,
                  vectorSize |-> vectorSize,
                  audioChannelIndex |-> audioChannelIndex, isMIDI |-> isMIDI])

\* openAudioDevice: the sources published for numIn active input channels
openSourceEndpointsUnconditional(numIn) ==
    addEndpoint(addEndpoint(<<>>, "stream", "defaultIn", numIn, 0, FALSE),
                "event", "defaultMidiIn", 1, 0, TRUE)

openSourceEndpoints(numIn) ==
    addEndpoint(IF numIn > 0
                  THEN addEndpoint(<<>>, "stream", "defaultIn", numIn, 0, FALSE)
                  ELSE <<>>,
                "event", "defaultMidiIn", 1, 0, TRUE)

\* openAudioDevice: the sinks published for numOut active output channels
openSinkEndpoints(numOut) ==
    addEndpoint(IF numOut > 0
                  THEN addEndpoint(<<>>, "stream", "defaultOut", numOut, 0, FALSE)
                  ELSE <<>>,
                "event", "defaultMidiOut", 1, 0, TRUE)

findEndpoint(endpoints, endpointID) ==
    IF \E i \in 1..Len(endpoints) : endpoints[i].endpointID = endpointID
      THEN CHOOSE i \in 1..Len(endpoints) :
                /\ endpoints[i].endpointID = endpointID
                /\ \A j \in 1..(i - 1) : endpoints[j].endpointID # endpointID
      ELSE 0

convertEndpointList(sourceList) ==
    [i \in 1..Len(sourceList) |->
        [endpointID |-> sourceList[i].endpointID, name |-> sourceList[i].name,
         kind |-> sourceList[i].kind, vectorSize |-> sourceList[i].vectorSize]]

VenueEndpointIDs == {"defaultIn", "defaultMidiIn", "defaultOut", "defaultMidiOut",
                     "unknown"}

\* SampleRateAndBlockSize
NoRateAndBlockSize == [sampleRate |-> 0, blockSize |-> 0]

updateDeviceProperties(rate, size) == [sampleRate |-> rate, blockSize |-> size]

DeviceBlockSizes == {BlockSize, BlockSize + 1}

\* ------------------------------------------------ the Performer's endpoints
\* The program a Performer holds declares these endpoints; an unloaded
\* Performer has none.
PerformerInputs ==
    [audioIn |-> "stream", sideIn |-> "stream", midiIn |-> "event", gain |-> "value"]

PerformerOutputs ==
    [audioOut |-> "stream", auxOut |-> "stream", eventOut |-> "event"]

InputIDs == DOMAIN PerformerInputs
OutputIDs == DOMAIN PerformerOutputs
PortIDs == InputIDs \cup OutputIDs \cup {"missing"}

hasProgram(p) == p \in {"loaded", "linked"}

\* performer->getInputSource (id) != nullptr
getInputSource(p, id) == hasProgram(p) /\ id \in InputIDs

\* performer->getOutputSink (id) != nullptr
getOutputSink(p, id) == hasProgram(p) /\ id \in OutputIDs

isStream(kind) == kind = "stream"
isEvent(kind) == kind = "event"

\* a std::unique_ptr to an adapter: empty, or the adapter and what it holds
NoAdapter == <<>>

\* the callbacks the endpoints of a Performer hold: pairs <<port, adapter id>>
NoCallbacks == {}

Adapters(s) ==
    [input |-> audioDeviceInputStream[s], output |-> audioDeviceOutputStream[s],
     midi |-> midiEventQueue[s], source |-> streamSource[s],
     sink |-> streamSink[s], state |-> state[s]]

\* AudioDeviceInputStream and AudioDeviceOutputStream as constructed: no
\* buffer available, offset 0
newStream(port, id, blockSize) ==
    [port |-> port, id |-> id, blockSize |-> blockSize,
     bufferAvailable |-> FALSE, bufferOffset |-> 0, numFrames |-> 0]

\* AudioDeviceInputStream::setInputBuffer
setInputBuffer(adapter, numSamples) ==
    IF adapter = NoAdapter THEN NoAdapter
    ELSE [adapter EXCEPT !.numFrames = numSamples,
                         !.bufferAvailable = TRUE,
                         !.bufferOffset = 0]

\* AudioDeviceOutputStream::setOutputBuffer
setOutputBuffer(adapter, numSamples) ==
    IF adapter = NoAdapter THEN NoAdapter
    ELSE [adapter EXCEPT !.bufferOffset = 0,
                         !.numFrames = numSamples,
                         !.bufferAvailable = TRUE]

\* the body both stream callbacks run when their buffer is available: the
\* frames are copied, the offset moves on, and the buffer stays available
\* while the offset is short of its end
consumeFrames(adapter, frames) ==
    [adapter EXCEPT !.bufferOffset = @ + frames,
                    !.bufferAvailable = (adapter.bufferOffset + frames
                                            < adapter.numFrames)]

\* the stream-source callback of an AudioDeviceInputStream: the adapter
\* after a request, and whether frames were posted
streamSourceAlways(adapter, requestedFrames) ==
    [adapter |-> consumeFrames(adapter, requestedFrames), posted |-> TRUE]

streamSourceCallback(adapter, requestedFrames) ==
    IF adapter.bufferAvailable
      THEN [adapter |-> consumeFrames(adapter, requestedFrames), posted |-> TRUE]
      ELSE [adapter |-> adapter, posted |-> FALSE]

\* the stream-sink callback of an AudioDeviceOutputStream: the adapter after
\* an offer, whether the frames were written, and what it returns
streamSinkWhatFits(adapter, num) ==
    IF adapter.bufferAvailable
      THEN [adapter |-> consumeFrames(adapter, num), written |-> TRUE,
            returned |-> num]
      ELSE [adapter |-> adapter, written |-> FALSE, returned |-> 0]

streamSinkCallback(adapter, num) ==
    IF adapter.bufferAvailable
      THEN [adapter |-> consumeFrames(adapter, num), written |-> TRUE,
            returned |-> num]
      ELSE [adapter |-> adapter, written |-> FALSE, returned |-> num]

NoStreamResult == [callback |-> "none", done |-> FALSE, frames |-> 0]

\* ------------------------------------------------------------ MIDI input
\* A uint32_t is kept as its two 16-bit halves.
Pow2(n) == 2 ^ n
Half == Pow2(16)
U32(n) == [hi |-> (n \div Half) % Half, lo |-> n % Half]     \* 0 <= n < 2^31
U32Max == [hi |-> Half - 1, lo |-> Half - 1]

RECURSIVE BitOr(_, _)
BitOr(a, b) ==
    IF a = 0 THEN b
    ELSE IF b = 0 THEN a
    ELSE (IF a % 2 = 1 \/ b % 2 = 1 THEN 1 ELSE 0) + 2 * BitOr(a \div 2, b \div 2)

OrU32(x, y) == [hi |-> BitOr(x.hi, y.hi), lo |-> BitOr(x.lo, y.lo)]

AddU32(x, y) ==
    [hi |-> (x.hi + y.hi + ((x.lo + y.lo) \div Half)) % Half,
     lo |-> (x.lo + y.lo) % Half]

ShiftLeftU32(x, n) ==
    IF n >= 16
      THEN [hi |-> (x.lo * Pow2(n - 16)) % Half, lo |-> 0]
      ELSE [hi |-> (x.hi * Pow2(n) + x.lo \div Pow2(16 - n)) % Half,
            lo |-> (x.lo * Pow2(n)) % Half]

\* (int) m
ToInt32(x) ==
    IF x.hi >= Pow2(15) THEN (x.hi - Half) * Half + x.lo
    ELSE x.hi * Half + x.lo

\* packMIDIMessageIntoInt, for a message of fewer than 4 bytes
packMIDIMessageIntoIntLowFirst(message) ==
    LET length == Len(message)
        m0 == U32(message[1])
        m1 == IF length > 1 THEN OrU32(m0, ShiftLeftU32(U32(message[2]), 8)) ELSE m0
        m2 == IF length > 2 THEN OrU32(m1, ShiftLeftU32(U32(message[3]), 16)) ELSE m1
    IN  ToInt32(m2)

packMIDIMessageIntoInt(message) ==
    LET length == Len(message)
        m0 == ShiftLeftU32(U32(message[1]), 16)
        m1 == IF length > 1 THEN OrU32(m0, ShiftLeftU32(U32(message[2]), 8)) ELSE m0
        m2 == IF length > 2 THEN OrU32(m1, U32(message[3])) ELSE m1
    IN  ToInt32(m2)

ByteSamples == {0, 1, 64, 127, 144, 255}

PackMessages ==
    UNION { [1..n -> ByteSamples] : n \in 1..3 }

\* the messages the MIDI inputs hand over: note-on, program change, and a
\* four-byte system-exclusive message
NoteOn == <<144, 64, 127>>
ProgramChange == <<192, 5>>
SysEx == <<240, 1, 2, 247>>
MidiMessages == {NoteOn, ProgramChange, SysEx}
MidiPositions == {2, 5}

\* handleIncomingMidiMessage: message.getRawDataSize() < 4
acceptsAnyLength(message) == TRUE

acceptsMidiMessage(message) == Len(message) < 4

\* InputEventQueue / EventFIFO: a bounded FIFO; a full queue drops the
\* newest event
enqueueEvent(fifo, samplePosition, value) ==
    IF Len(fifo) < EventFIFOCapacity
      THEN Append(fifo, <<samplePosition, value>>)
      ELSE fifo

\* the queue hands its events to the Performer in arrival order
drainEvents(fifo) == fifo

RECURSIVE enqueueAll(_, _)
enqueueAll(fifo, midiEvents) ==
    IF midiEvents = <<>> THEN fifo
    ELSE enqueueAll(enqueueEvent(fifo, midiEvents[1].samplePosition,
                                 packMIDIMessageIntoInt(midiEvents[1].message)),
                    Tail(midiEvents))

RECURSIVE sortedByPosition(_)
sortedByPosition(midiEvents) ==
    IF midiEvents = <<>> THEN <<>>
    ELSE LET least == CHOOSE i \in 1..Len(midiEvents) :
                        /\ \A j \in 1..Len(midiEvents) :
                              midiEvents[i].samplePosition <= midiEvents[j].samplePosition
                        /\ \A j \in 1..(i - 1) :
                              midiEvents[j].samplePosition # midiEvents[i].samplePosition
             rest == SubSeq(midiEvents, 1, least - 1)
                        \o SubSeq(midiEvents, least + 1, Len(midiEvents))
         IN  <<midiEvents[least]>> \o sortedByPosition(rest)

\* processBlock: while (iterator.getNextEvent (...)) enqueueEvent (...)
processBlockMidiByTime(queue, midiEvents) ==
    IF queue # NoAdapter /\ midiEvents # <<>>
      THEN enqueueAll(<<>>, sortedByPosition(midiEvents))
      ELSE <<>>

processBlockMidi(queue, midiEvents) ==
    IF queue # NoAdapter /\ midiEvents # <<>>
      THEN enqueueAll(<<>>, midiEvents)
      ELSE <<>>

\* AudioPlayerSession::processBlock: the calls it makes, in the order it
\* makes them
processBlockAdvancingFirst(s, midiEvents) ==
    << "prepare", "advance" >>
    \o (IF midiEventQueue[s] # NoAdapter /\ midiEvents # <<>>
          THEN << "enqueueEvent" >> ELSE <<>>)
    \o (IF audioDeviceInputStream[s] # NoAdapter
          THEN << "setInputBuffer" >> ELSE <<>>)
    \o (IF audioDeviceOutputStream[s] # NoAdapter
          THEN << "setOutputBuffer" >> ELSE <<>>)

processBlock(s, midiEvents) ==
    (IF midiEventQueue[s] # NoAdapter /\ midiEvents # <<>>
       THEN << "enqueueEvent" >> ELSE <<>>)
    \o (IF audioDeviceInputStream[s] # NoAdapter
          THEN << "setInputBuffer" >> ELSE <<>>)
    \o (IF audioDeviceOutputStream[s] # NoAdapter
          THEN << "setOutputBuffer" >> ELSE <<>>)
    \o << "prepare", "advance" >>

\* ------------------------------------------------------------ getStatus
NoStatus == [session |-> 0, state |-> "none", xruns |-> U32(0),
             sampleRate |-> 0, blockSize |-> 0]

\* if (deviceXruns > 0) s.xruns += (uint32_t) deviceXruns
addDeviceXRunsAlways(xruns, open, deviceCount) ==
    IF open THEN AddU32(xruns, U32(IF deviceCount < 0 THEN 1 ELSE deviceCount))
    ELSE xruns

addDeviceXRuns(xruns, open, deviceCount) ==
    IF open /\ deviceCount > 0 THEN AddU32(xruns, U32(deviceCount)) ELSE xruns

getStatus(s) ==
    [session |-> s, state |-> state[s],
     xruns |-> addDeviceXRuns(performerXRuns[s], audioDevice, deviceXRuns),
     sampleRate |-> currentRateAndBlockSize[s].sampleRate,
     blockSize |-> currentRateAndBlockSize[s].blockSize]

PerformerXRunSamples == {U32(0), U32(1), U32Max}
DeviceXRunSamples == {-1, 0, 1, 7}

\* ------------------------------------------------------- the stall watchdog
stallTimeout == stallTimeoutSeconds * timerHz      \* in timer ticks

\* startTimerHz (3): the period in milliseconds; openMIDIDevices ends with
\* startTimer (2000)
timerPeriod == 1000 \div timerHz
midiTimerInterval == 2000

\* checkMIDIDevices: now > lastMIDIDeviceCheck + RelativeTime::seconds (2)
midiCheckSeconds == 2
midiCheckDue(lastCheck, time) == time > lastCheck + midiCheckSeconds * timerHz

\* openMIDIDevices: the timer's period when it returns
openMIDIDevices(interval) == midiTimerInterval

stalledWithoutCount(last, lastChange, time) ==
    time > lastChange + stallTimeout

stalledAtOrAfter(last, lastChange, time) ==
    last # 0 /\ time >= lastChange + stallTimeout

stalled(last, lastChange, time) ==
    last # 0 /\ time > lastChange + stallTimeout

\* audioDeviceAboutToStart has not been called since the Venue opened its
\* device
NotRestarted == [pc |-> "idle", at |-> -1]

\* ------------------------------------------------------- soul::intrinsics
\* int32
MinInt32 == -2147483647 - 1
MaxInt32 == 2147483647

\* n % range of the language, which truncates towards zero as C++ does: the
\* remainder has the sign of n
Remainder(n, range) ==
    LET size == IF range < 0 THEN 0 - range ELSE range
        m == n % size
    IN  IF n >= 0 \/ m = 0 THEN m ELSE m - size

\* int32 wrap (int32 n, int32 range)
wrapTruncating(n, range) ==
    IF range = 0 THEN 0
    ELSE Remainder(n, range)

wrap(n, range) ==
    IF range = 0 THEN 0
    ELSE LET x == Remainder(n, range)
         IN  IF x < 0 THEN x + range ELSE x

WrapNumbers == (-MaxWrapNumber .. MaxWrapNumber) \cup {MinInt32, MaxInt32}
WrapRanges == (0 .. MaxWrapRange) \cup {MaxInt32}
NoWrapCall == [n |-> 0, range |-> 0, called |-> FALSE, result |-> 0]

\* ------------------------------------------------ soul::patch::RefCountingPtr
Pointers == 1..NumPointers
Objects == 1..NumObjects
NoPointer == -1             \* the pointer is not constructed
Null == 0                   \* source == nullptr

\* what the pointers have done to the objects: addRef() minus release() of
\* each, the adopting constructions and incrementAndGetPointer calls of
\* each, and the calls of the last operation in order
NoRefLog == [net |-> [o \in Objects |-> 0],
             adopted |-> [o \in Objects |-> 0],
             incremented |-> [o \in Objects |-> 0],
             calls |-> <<>>, op |-> "none", pointer |-> 0, other |-> 0]

\* RefCountingPtr::addRef: if (source != nullptr) source->addRef()
addRefOmitted(object, log) == log

addRef(object, log) ==
    IF object = Null THEN log
    ELSE [log EXCEPT !.net[object] = @ + 1,
                     !.calls = Append(@, << "addRef", object >>)]

\* RefCountingPtr::release: if (source != nullptr) source->release()
release(object, log) ==
    IF object = Null THEN log
    ELSE [log EXCEPT !.net[object] = @ - 1,
                     !.calls = Append(@, << "release", object >>)]

\* an operation begins: its own calls are logged from here
beginOp(op, p, other) ==
    [refLog EXCEPT !.calls = <<>>, !.op = op, !.pointer = p, !.other = other]

\* ------------------------------------------------------------------ Init
\* everything but the device, the MIDI collector and the message at hand
InitCommon ==
    /\ alive = [s \in Sessions |-> FALSE]
    /\ state = [s \in Sessions |-> "empty"]
    /\ performer = [s \in Sessions |-> "unloaded"]
    /\ stateChangeCallback = [s \in Sessions |-> FALSE]
    /\ activeSessions = <<>>
    /\ activeSessionLock = "none"
    /\ ctlOp = "none"
    /\ ctlSession = 1
    /\ ctlPc = "done"
    /\ preState = "empty"
    /\ preActive = <<>>
    /\ ret = "none"
    /\ performerOk = FALSE
    /\ events = <<>>
    /\ audioPc = "idle"
    /\ audioIndex = 1
    /\ blockSessions = <<>>
    /\ totalSamplesProcessed = 0
    /\ currentRateAndBlockSize = [s \in Sessions |-> NoRateAndBlockSize]
    /\ audioDeviceInputStream = [s \in Sessions |-> NoAdapter]
    /\ audioDeviceOutputStream = [s \in Sessions |-> NoAdapter]
    /\ midiEventQueue = [s \in Sessions |-> NoAdapter]
    /\ streamSource = [s \in Sessions |-> NoCallbacks]
    /\ streamSink = [s \in Sessions |-> NoCallbacks]
    /\ adapterCount = 0
    /\ preAdapters = [adapters |-> [input |-> NoAdapter, output |-> NoAdapter,
                                    midi |-> NoAdapter, source |-> NoCallbacks,
                                    sink |-> NoCallbacks, state |-> "empty"],
                      portID |-> "none", venueID |-> "none"]
    /\ performerXRuns = [s \in Sessions |-> U32(0)]
    /\ status = NoStatus
    /\ midiCollector = <<>>
    /\ incomingMIDI = <<>>
    /\ delivered = [s \in Sessions |-> <<>>]
    /\ packedValue = -1
    /\ now = StartTime
    /\ audioCallbackCount = 0
    /\ lastCallbackCount = 0
    /\ lastCallbackCountChange = 0
    /\ terminations = 0
    /\ lastAdvance = -1
    /\ checkedAt = -1
    /\ blockSteps = <<>>
    /\ hardwareOutput = "none"
    /\ loadMeasurer = "reset"
    /\ streamResult = NoStreamResult
    /\ timerInterval = timerPeriod
    /\ lastMIDIDeviceCheck = 0
    /\ wrapCall = NoWrapCall
    /\ source = [p \in Pointers |-> NoPointer]
    /\ refLog = NoRefLog
    /\ aboutToStart = NotRestarted

\* the constructor's openAudioDevice: the device opens (with numIn and numOut
\* active channels) or does not
InitDevice(open, numIn, numOut) ==
    /\ audioDevice = open
    /\ deviceStarted = open
    /\ numInputChannels = IF open THEN numIn ELSE 0
    /\ numOutputChannels = IF open THEN numOut ELSE 0
    /\ deviceSampleRate = IF open THEN collectorSampleRate ELSE 0
    /\ deviceBlockSize = IF open THEN BlockSize ELSE 0
    /\ deviceXRuns = 0
    /\ sourceEndpoints = IF open THEN openSourceEndpoints(numIn) ELSE <<>>
    /\ sinkEndpoints = IF open THEN openSinkEndpoints(numOut) ELSE <<>>

Init ==
    /\ InitCommon
    /\ InitDevice(TRUE, MaxChannels, MaxChannels)
    /\ hasMidiCollector = TRUE
    /\ midiMessage = NoteOn

\* ------------------------------------------------- control thread: calls
createSession(s) ==
    /\ ctlPc = "done"
    /\ ~ alive[s]
    /\ alive' = [alive EXCEPT ![s] = TRUE]
    /\ state' = [state EXCEPT ![s] = "empty"]
    /\ performer' = [performer EXCEPT ![s] = "unloaded"]
    /\ stateChangeCallback' = [stateChangeCallback EXCEPT ![s] = FALSE]
    /\ currentRateAndBlockSize' =
          [currentRateAndBlockSize EXCEPT ![s] =
              IF audioDevice
                THEN updateDeviceProperties(deviceSampleRate, deviceBlockSize)
                ELSE NoRateAndBlockSize]
    /\ UNCHANGED << activeSessions, activeSessionLock, ctlOp, ctlSession, ctlPc,
                    preState, preActive, ret, performerOk, events >>
    /\ UNCHANGED audioVars
    /\ UNCHANGED << deviceVars, adapterVars, statusVars, midiVars, packVars,
                    watchdogVars, callbackVars, quietVars >>

setStateChangeCallback(s, f) ==
    /\ ctlPc = "done"
    /\ alive[s]
    /\ stateChangeCallback' = [stateChangeCallback EXCEPT ![s] = f]
    /\ UNCHANGED << alive, state, performer, activeSessions, activeSessionLock,
                    ctlOp, ctlSession, ctlPc, preState, preActive, ret,
                    performerOk, events >>
    /\ UNCHANGED audioVars
    /\ UNCHANGED controlFrame

BeginCall(op, s, entry) ==
    /\ ctlPc = "done"
    /\ alive[s]
    /\ ctlOp' = op
    /\ ctlSession' = s
    /\ ctlPc' = entry
    /\ preState' = state[s]
    /\ preActive' = activeSessions
    /\ ret' = "none"
    /\ performerOk' = FALSE
    /\ events' = <<>>
    /\ UNCHANGED << activeSessions, activeSessionLock >>
    /\ UNCHANGED sessionVars
    /\ UNCHANGED audioVars
    /\ UNCHANGED controlFrame

unloadEntryWithoutStop == "unload_performer"

unloadEntry == "stop_check"

loadEntryWithoutUnload == "load_performer"

loadEntry == unloadEntry

destroyEntryWithoutStop == "unload_performer"

destroyEntry == unloadEntry

CallLoad(s)    == BeginCall("load", s, loadEntry)
CallLink(s)    == BeginCall("link", s, "link")
CallStart(s)   == BeginCall("start", s, "start_check")
CallStop(s)    == BeginCall("stop", s, "stop_check")
CallUnload(s)  == BeginCall("unload", s, unloadEntry)
DestroySession(s) == BeginCall("destroy", s, destroyEntry)

\* ------------------------------------------------- control thread: steps
CtlStep(pc) == ctlPc = pc

\* where a call goes once stop() has returned
afterStop(op) == IF op = "stop" THEN "done" ELSE "unload_performer"

\* stop(): if (isRunning())
StopCheck ==
    /\ CtlStep("stop_check")
    /\ IF isRunning(state[ctlSession])
         THEN /\ ctlPc' = "stop_lock"
              /\ ret' = ret
         ELSE /\ ctlPc' = afterStop(ctlOp)
              /\ ret' = IF ctlOp = "stop" THEN "void" ELSE ret
    /\ UNCHANGED << activeSessions, activeSessionLock, performerOk, events >>
    /\ UNCHANGED << sessionVars, callVars, audioVars >>
    /\ UNCHANGED controlFrame

\* stopSession: std::lock_guard lock (activeSessionLock)
StopSessionLock ==
    /\ CtlStep("stop_lock")
    /\ lockFree(activeSessionLock, "control")
    /\ activeSessionLock' = "control"
    /\ ctlPc' = "stop_remove"
    /\ UNCHANGED << activeSessions, ret, performerOk, events >>
    /\ UNCHANGED << sessionVars, callVars, audioVars >>
    /\ UNCHANGED controlFrame

\* stopSession: removeFirst, return true (the lock_guard releases the lock)
StopSessionRemove ==
    /\ CtlStep("stop_remove")
    /\ activeSessions' = stopSession(activeSessions, ctlSession)
    /\ activeSessionLock' = IF activeSessionLock = "control" THEN "none"
                            ELSE activeSessionLock
    /\ events' = Append(events, "stopSession")
    /\ IF ctlOp = "stopSession"
         THEN /\ ctlPc' = "done"
              /\ ret' = BoolRet(stopSessionResult)
         ELSE /\ ctlPc' = "stop_set"
              /\ ret' = ret
    /\ UNCHANGED performerOk
    /\ UNCHANGED << sessionVars, callVars, audioVars >>
    /\ UNCHANGED controlFrame

\* stop(): setState (State::linked)
StopSetStateEmpty ==
    /\ CtlStep("stop_set")
    /\ setState(ctlSession, "empty")
    /\ ctlPc' = afterStop(ctlOp)
    /\ ret' = IF ctlOp = "stop" THEN "void" ELSE ret
    /\ UNCHANGED << alive, performer, stateChangeCallback, activeSessions,
                    activeSessionLock, performerOk >>
    /\ UNCHANGED << callVars, audioVars >>
    /\ UNCHANGED controlFrame

StopSetState ==
    /\ CtlStep("stop_set")
    /\ setState(ctlSession, "linked")
    /\ ctlPc' = afterStop(ctlOp)
    /\ ret' = IF ctlOp = "stop" THEN "void" ELSE ret
    /\ UNCHANGED << alive, performer, stateChangeCallback, activeSessions,
                    activeSessionLock, performerOk >>
    /\ UNCHANGED << callVars, audioVars >>
    /\ UNCHANGED controlFrame

\* unload(): performer->unload()
UnloadPerformer ==
    /\ CtlStep("unload_performer")
    /\ performer' = [performer EXCEPT ![ctlSession] = "unloaded"]
    /\ events' = Append(events, "performer_unload")
    /\ ctlPc' = "unload_set"
    /\ UNCHANGED << alive, state, stateChangeCallback, activeSessions,
                    activeSessionLock, ret, performerOk >>
    /\ UNCHANGED << callVars, audioVars >>
    /\ UNCHANGED controlFrame

\* unload(): setState (State::empty); load() goes on, ~AudioPlayerSession
\* ends the object
UnloadSetState ==
    /\ CtlStep("unload_set")
    /\ setState(ctlSession, "empty")
    /\ ctlPc' = IF ctlOp = "load" THEN "load_performer" ELSE "done"
    /\ ret' = IF ctlOp = "load" THEN ret ELSE "void"
    /\ alive' = IF ctlOp = "destroy" THEN [alive EXCEPT ![ctlSession] = FALSE]
                ELSE alive
    /\ stateChangeCallback' =
          IF ctlOp = "destroy"
            THEN [stateChangeCallback EXCEPT ![ctlSession] = FALSE]
            ELSE stateChangeCallback
    /\ IF ctlOp = "destroy"
         THEN /\ audioDeviceInputStream' =
                    [audioDeviceInputStream EXCEPT ![ctlSession] = NoAdapter]
              /\ audioDeviceOutputStream' =
                    [audioDeviceOutputStream EXCEPT ![ctlSession] = NoAdapter]
              /\ midiEventQueue' = [midiEventQueue EXCEPT ![ctlSession] = NoAdapter]
              /\ streamSource' = [streamSource EXCEPT ![ctlSession] = NoCallbacks]
              /\ streamSink' = [streamSink EXCEPT ![ctlSession] = NoCallbacks]
              /\ currentRateAndBlockSize' =
                    [currentRateAndBlockSize EXCEPT ![ctlSession] = NoRateAndBlockSize]
              /\ delivered' = [delivered EXCEPT ![ctlSession] = <<>>]
              /\ performerXRuns' = [performerXRuns EXCEPT ![ctlSession] = U32(0)]
         ELSE UNCHANGED << audioDeviceInputStream, audioDeviceOutputStream,
                           midiEventQueue, streamSource, streamSink,
                           currentRateAndBlockSize, delivered, performerXRuns >>
    /\ UNCHANGED << performer, activeSessions, activeSessionLock, performerOk >>
    /\ UNCHANGED << callVars, audioVars >>
    /\ UNCHANGED << deviceVars, adapterCount, preAdapters, status,
                    hasMidiCollector, midiCollector, incomingMIDI, packVars,
                    watchdogVars, callbackVars, quietVars >>

\* load(): if (performer->load (messageList, p))
loadNextIgnoringFailure(ok) == "load_set"

loadNext(ok) == IF ok THEN "load_set" ELSE "done"

LoadPerformer ==
    /\ CtlStep("load_performer")
    /\ \E ok \in BOOLEAN :
          /\ performerOk' = ok
          /\ performer' = [performer EXCEPT ![ctlSession] =
                              IF ok THEN "loaded" ELSE "unloaded"]
          /\ ctlPc' = loadNext(ok)
          /\ ret' = IF loadNext(ok) = "done" THEN "false" ELSE ret
    /\ events' = Append(events, "performer_load")
    /\ UNCHANGED << alive, state, stateChangeCallback, activeSessions,
                    activeSessionLock >>
    /\ UNCHANGED << callVars, audioVars >>
    /\ UNCHANGED controlFrame

\* load(): setState (State::loaded); return true
LoadSetState ==
    /\ CtlStep("load_set")
    /\ setState(ctlSession, "loaded")
    /\ ctlPc' = "done"
    /\ ret' = "true"
    /\ UNCHANGED << alive, performer, stateChangeCallback, activeSessions,
                    activeSessionLock, performerOk >>
    /\ UNCHANGED << callVars, audioVars >>
    /\ UNCHANGED controlFrame

\* link(): if (state == State::loaded && performer->link (...))
linkAllowedFromEmpty(st) == st \in {"loaded", "empty"}

linkAllowed(st) == st = "loaded"

linkNextIgnoringFailure(ok) == "link_set"

linkNext(ok) == IF ok THEN "link_set" ELSE "done"

Link ==
    /\ CtlStep("link")
    /\ IF linkAllowed(state[ctlSession])
         THEN /\ \E ok \in BOOLEAN :
                    /\ performerOk' = ok
                    /\ performer' = [performer EXCEPT ![ctlSession] =
                                        IF ok THEN "linked" ELSE @]
                    /\ ctlPc' = linkNext(ok)
                    /\ ret' = IF linkNext(ok) = "done" THEN "false" ELSE ret
              /\ events' = Append(events, "performer_link")
         ELSE /\ ctlPc' = "done"
              /\ ret' = "false"
              /\ UNCHANGED << performer, performerOk, events >>
    /\ UNCHANGED << alive, state, stateChangeCallback, activeSessions,
                    activeSessionLock >>
    /\ UNCHANGED << callVars, audioVars >>
    /\ UNCHANGED controlFrame

\* link(): setState (State::linked); return true
LinkSetState ==
    /\ CtlStep("link_set")
    /\ setState(ctlSession, "linked")
    /\ ctlPc' = "done"
    /\ ret' = "true"
    /\ UNCHANGED << alive, performer, stateChangeCallback, activeSessions,
                    activeSessionLock, performerOk >>
    /\ UNCHANGED << callVars, audioVars >>
    /\ UNCHANGED controlFrame

\* start(): if (state == State::linked) ... return isRunning()
startAllowedFromLoaded(st) == st \in {"linked", "loaded"}

startAllowed(st) == st = "linked"

StartCheck ==
    /\ CtlStep("start_check")
    /\ IF startAllowed(state[ctlSession])
         THEN /\ ctlPc' = "start_lock"
              /\ ret' = ret
         ELSE /\ ctlPc' = "done"
              /\ ret' = BoolRet(isRunning(state[ctlSession]))
    /\ UNCHANGED << activeSessions, activeSessionLock, performerOk, events >>
    /\ UNCHANGED << sessionVars, callVars, audioVars >>
    /\ UNCHANGED controlFrame

\* startSession: std::lock_guard lock (activeSessionLock)
StartSessionLock ==
    /\ CtlStep("start_lock")
    /\ lockFree(activeSessionLock, "control")
    /\ activeSessionLock' = "control"
    /\ ctlPc' = "start_add"
    /\ UNCHANGED << activeSessions, ret, performerOk, events >>
    /\ UNCHANGED << sessionVars, callVars, audioVars >>
    /\ UNCHANGED controlFrame

\* startSession: push_back unless contained, return true
StartSessionAdd ==
    /\ CtlStep("start_add")
    /\ activeSessions' = startSession(activeSessions, ctlSession)
    /\ activeSessionLock' = IF activeSessionLock = "control" THEN "none"
                            ELSE activeSessionLock
    /\ events' = Append(events, "startSession")
    /\ IF ctlOp = "startSession"
         THEN /\ ctlPc' = "done"
              /\ ret' = BoolRet(startSessionResult)
         ELSE IF startSessionResult
                THEN /\ ctlPc' = "start_set"
                     /\ ret' = ret
                ELSE /\ ctlPc' = "done"
                     /\ ret' = BoolRet(isRunning(state[ctlSession]))
    /\ UNCHANGED performerOk
    /\ UNCHANGED << sessionVars, callVars, audioVars >>
    /\ UNCHANGED controlFrame

\* start(): setState (State::running); return isRunning()
StartSetState ==
    /\ CtlStep("start_set")
    /\ setState(ctlSession, "running")
    /\ ctlPc' = "done"
    /\ ret' = BoolRet(isRunning(state'[ctlSession]))
    /\ UNCHANGED << alive, performer, stateChangeCallback, activeSessions,
                    activeSessionLock, performerOk >>
    /\ UNCHANGED << callVars, audioVars >>
    /\ UNCHANGED controlFrame

\* ------------------------------------------------------ the audio thread
audioFrame == << deviceVars, currentRateAndBlockSize, midiEventQueue,
                 streamSource, streamSink, adapterCount, preAdapters,
                 statusVars, hasMidiCollector, packVars, deviceStarted,
                 timerVars, libraryVars, aboutToStart >>

\* midiCollector->removeNextBlockOfMessages (incomingMIDI, numSamples): every
\* collected message, in arrival order, at a sample position of the device's
\* choosing
BlockOfMessages(collected) ==
    { [i \in 1..Len(collected) |->
          [samplePosition |-> positions[i], message |-> collected[i]]] :
      positions \in [1..Len(collected) -> MidiPositions] }

\* incomingMIDI.clear()
clearNothing(buffer) == buffer

clear(buffer) == <<>>

\* if (totalSamplesProcessed > numWarmUpSamples)
warmedUpAtOrAfter(total) == total >= numWarmUpSamples

warmedUp(total) == total > numWarmUpSamples

\* audioDeviceIOCallback up to the warm-up test
AudioCallbackBegin ==
    /\ audioPc = "idle"
    /\ audioDevice
    /\ deviceStarted
    /\ terminations = 0
    /\ totalSamplesProcessed < MaxTotalSamples
    /\ loadMeasurer' = "startMeasurement"
    /\ audioCallbackCount' = audioCallbackCount + 1
    /\ hardwareOutput' = "cleared"
    /\ lastAdvance' = now
    /\ IF hasMidiCollector
         THEN /\ \E block \in BlockOfMessages(midiCollector) :
                    incomingMIDI' = incomingMIDI \o block
              /\ midiCollector' = <<>>
         ELSE UNCHANGED << midiCollector, incomingMIDI >>
    /\ blockSessions' = <<>>
    /\ audioIndex' = 1
    /\ audioPc' = IF warmedUp(totalSamplesProcessed) THEN "lock" ELSE "end"
    /\ UNCHANGED << totalSamplesProcessed, blockSteps, streamResult >>
    /\ UNCHANGED << audioDeviceInputStream, audioDeviceOutputStream >>
    /\ UNCHANGED << activeSessions, activeSessionLock, ctlPc, ret, performerOk, events >>
    /\ UNCHANGED << sessionVars, callVars, audioFrame, delivered >>
    /\ UNCHANGED << now, lastCallbackCount, lastCallbackCountChange,
                    terminations, checkedAt >>

\* std::lock_guard lock (activeSessionLock)
AudioCallbackLock ==
    /\ audioPc = "lock"
    /\ terminations = 0
    /\ lockFree(activeSessionLock, "audio")
    /\ activeSessionLock' = "audio"
    /\ audioPc' = "iterate"
    /\ UNCHANGED << audioIndex, blockSessions, totalSamplesProcessed >>
    /\ UNCHANGED << activeSessions, ctlPc, ret, performerOk, events >>
    /\ UNCHANGED << sessionVars, callVars, audioFrame, midiVars, watchdogVars >>
    /\ UNCHANGED << audioDeviceInputStream, audioDeviceOutputStream,
                    callbackVars, streamResult >>

\* for (auto& s : activeSessions) s->processBlock (...): the block's MIDI
\* events go to the session's event queue, which hands them to the Performer
\* while it prepares and advances
AudioProcessBlock ==
    /\ audioPc = "iterate"
    /\ terminations = 0
    /\ audioIndex <= Len(activeSessions)
    /\ LET s == activeSessions[audioIndex]
       IN  /\ delivered' = [delivered EXCEPT ![s] =
                              drainEvents(processBlockMidi(midiEventQueue[s], incomingMIDI))]
           /\ audioDeviceInputStream' =
                 [audioDeviceInputStream EXCEPT ![s] = setInputBuffer(@, BlockSize)]
           /\ audioDeviceOutputStream' =
                 [audioDeviceOutputStream EXCEPT ![s] = setOutputBuffer(@, BlockSize)]
           /\ blockSteps' = processBlock(s, incomingMIDI)
    /\ blockSessions' = Append(blockSessions, activeSessions[audioIndex])
    /\ audioIndex' = audioIndex + 1
    /\ streamResult' = NoStreamResult
    /\ UNCHANGED << audioPc, totalSamplesProcessed, hardwareOutput, loadMeasurer >>
    /\ UNCHANGED << activeSessions, activeSessionLock, ctlPc, ret, performerOk, events >>
    /\ UNCHANGED << sessionVars, callVars, audioFrame, watchdogVars >>
    /\ UNCHANGED << midiCollector, incomingMIDI >>

\* end of the locked scope
AudioCallbackUnlock ==
    /\ audioPc = "iterate"
    /\ terminations = 0
    /\ audioIndex > Len(activeSessions)
    /\ activeSessionLock' = IF activeSessionLock = "audio" THEN "none"
                            ELSE activeSessionLock
    /\ audioPc' = "end"
    /\ streamResult' = NoStreamResult
    /\ UNCHANGED << audioIndex, blockSessions, totalSamplesProcessed >>
    /\ UNCHANGED << activeSessions, ctlPc, ret, performerOk, events >>
    /\ UNCHANGED << sessionVars, callVars, audioFrame, midiVars, watchdogVars >>
    /\ UNCHANGED << audioDeviceInputStream, audioDeviceOutputStream,
                    callbackVars >>

\* incomingMIDI.clear(); totalSamplesProcessed += numSamples;
\* loadMeasurer.stopMeasurement(); the buffers go back to the device
AudioCallbackEnd ==
    /\ audioPc = "end"
    /\ terminations = 0
    /\ incomingMIDI' = clear(incomingMIDI)
    /\ totalSamplesProcessed' = totalSamplesProcessed + BlockSize
    /\ loadMeasurer' = "stopMeasurement"
    /\ hardwareOutput' = "none"
    /\ audioPc' = "idle"
    /\ audioIndex' = 1
    /\ blockSessions' = <<>>
    /\ blockSteps' = <<>>
    /\ UNCHANGED << audioDeviceInputStream, audioDeviceOutputStream,
                    streamResult >>
    /\ UNCHANGED << activeSessions, activeSessionLock, ctlPc, ret, performerOk, events >>
    /\ delivered' = [s \in Sessions |-> <<>>]
    /\ UNCHANGED << sessionVars, callVars, audioFrame, watchdogVars >>
    /\ UNCHANGED midiCollector

AudioThread ==
    \/ AudioCallbackBegin
    \/ AudioCallbackLock
    \/ AudioProcessBlock
    \/ AudioCallbackUnlock
    \/ AudioCallbackEnd

\* ------------------------------------------------------- specifications
\* Sessions are interchangeable and a callback reports nothing but its own
\* session's changes, so the host installs callbacks on one session.
WatchedSessions == {CHOOSE s \in Sessions : \A o \in Sessions : s <= o}

Next ==
    \/ \E s \in Sessions : createSession(s)
    \/ \E s \in WatchedSessions, f \in BOOLEAN : setStateChangeCallback(s, f)
    \/ \E s \in Sessions : CallLoad(s)
    \/ \E s \in Sessions : CallLink(s)
    \/ \E s \in Sessions : CallStart(s)
    \/ \E s \in Sessions : CallStop(s)
    \/ \E s \in Sessions : CallUnload(s)
    \/ \E s \in Sessions : DestroySession(s)
    \/ StopCheck
    \/ StopSessionLock
    \/ StopSessionRemove
    \/ StopSetState
    \/ UnloadPerformer
    \/ UnloadSetState
    \/ LoadPerformer
    \/ LoadSetState
    \/ Link
    \/ LinkSetState
    \/ StartCheck
    \/ StartSessionLock
    \/ StartSessionAdd
    \/ StartSetState
    \/ AudioCallbackBegin
    \/ AudioCallbackLock
    \/ AudioProcessBlock
    \/ AudioCallbackUnlock
    \/ AudioCallbackEnd

Spec == Init /\ [][Next]_vars

\* The registry on its own: startSession and stopSession called directly,
\* on any session and in any order, while the audio thread runs.
CallStartSession(s) == BeginCall("startSession", s, "start_lock")
CallStopSession(s)  == BeginCall("stopSession", s, "stop_lock")

NextRegistry ==
    \/ \E s \in Sessions : createSession(s)
    \/ \E s \in Sessions : CallStartSession(s)
    \/ \E s \in Sessions : CallStopSession(s)
    \/ StartSessionLock
    \/ StartSessionAdd
    \/ StopSessionLock
    \/ StopSessionRemove
    \/ AudioCallbackBegin
    \/ AudioCallbackLock
    \/ AudioProcessBlock
    \/ AudioCallbackUnlock
    \/ AudioCallbackEnd

SpecRegistry == Init /\ [][NextRegistry]_vars

\* ------------------------------------------------- connecting endpoints
\* Connect calls touch one session's adapters and nothing of any other
\* session, so they are followed on a single session.
HostedSessions == {NumSessions}

\* InputSource::setStreamSource / removeSource, OutputSink::setStreamSink /
\* removeSink: the endpoint keeps one callback; removing takes no argument
\* and clears whatever callback the endpoint holds
setStreamSource(callbacks, port, id) ==
    { c \in callbacks : c[1] # port } \cup { <<port, id>> }

removeSource(callbacks, adapter) ==
    IF adapter = NoAdapter THEN callbacks
    ELSE { c \in callbacks : c[1] # adapter.port }

\* audioDeviceInputStream = std::make_unique<AudioDeviceInputStream> (...):
\* the new adapter is constructed (and attaches itself) before the one the
\* pointer held is destroyed (and detaches)
replaceAdapter(callbacks, old, port, id) ==
    removeSource(setStreamSource(callbacks, port, id), old)

\* connectInputEndpoint: the adapter it makes, "none" when it returns false
connectInputEndpointAnyKind(p, isMIDI, inputID) ==
    IF getInputSource(p, inputID)
      THEN IF isStream(PerformerInputs[inputID]) THEN "stream"
           ELSE IF isEvent(PerformerInputs[inputID]) THEN "event"
           ELSE "none"
      ELSE "none"

connectInputEndpoint(p, isMIDI, inputID) ==
    IF getInputSource(p, inputID)
      THEN IF isStream(PerformerInputs[inputID])
             THEN (IF isMIDI THEN "none" ELSE "stream")
           ELSE IF isEvent(PerformerInputs[inputID])
             THEN (IF ~ isMIDI THEN "none" ELSE "event")
           ELSE "none"
      ELSE "none"

\* connectOutputEndpoint: the adapter it makes, "none" when it returns false
connectOutputEndpoint(p, isMIDI, outputID) ==
    IF getOutputSink(p, outputID)
      THEN IF isStream(PerformerOutputs[outputID])
             THEN (IF isMIDI THEN "none" ELSE "stream")
           ELSE "none"
      ELSE "none"

\* what a connect call leaves alone
connectFrame ==
    << alive, state, performer, stateChangeCallback, activeSessions,
       activeSessionLock, ctlPc, performerOk, audioVars, deviceVars,
       currentRateAndBlockSize, statusVars, midiVars, packVars, watchdogVars,
       callbackVars, quietVars >>

BeginConnect(op, s, portID, venueID) ==
    /\ ctlPc = "done"
    /\ alive[s]
    /\ adapterCount < MaxAdapters
    /\ ctlOp' = op
    /\ ctlSession' = s
    /\ preState' = state[s]
    /\ preActive' = activeSessions
    /\ events' = <<>>
    /\ preAdapters' = [adapters |-> Adapters(s), portID |-> portID,
                       venueID |-> venueID]

connectSessionInputEndpoint(s, inputID, venueSourceID) ==
    /\ BeginConnect("connectInput", s, inputID, venueSourceID)
    /\ LET venueEndpoint == IF audioDevice
                              THEN findEndpoint(sourceEndpoints, venueSourceID)
                              ELSE 0
           made == IF venueEndpoint = 0 THEN "none"
                   ELSE connectInputEndpoint(performer[s],
                                             sourceEndpoints[venueEndpoint].isMIDI,
                                             inputID)
           id == adapterCount + 1
       IN  /\ ret' = BoolRet(made # "none")
           /\ adapterCount' = IF made # "none" THEN id ELSE adapterCount
           /\ IF made = "stream"
                THEN /\ audioDeviceInputStream' =
                           [audioDeviceInputStream EXCEPT ![s] =
                               newStream(inputID, id,
                                         currentRateAndBlockSize[s].blockSize)]
                     /\ streamSource' =
                           [streamSource EXCEPT ![s] =
                               replaceAdapter(@, audioDeviceInputStream[s],
                                              inputID, id)]
                ELSE UNCHANGED << audioDeviceInputStream, streamSource >>
           /\ midiEventQueue' =
                 IF made = "event"
                   THEN [midiEventQueue EXCEPT ![s] =
                            [port |-> inputID, id |-> id, blockSize |-> 0]]
                   ELSE midiEventQueue
    /\ UNCHANGED << audioDeviceOutputStream, streamSink >>
    /\ UNCHANGED connectFrame

connectSessionOutputEndpoint(s, outputID, venueSinkID) ==
    /\ BeginConnect("connectOutput", s, outputID, venueSinkID)
    /\ LET venueEndpoint == IF audioDevice
                              THEN findEndpoint(sinkEndpoints, venueSinkID)
                              ELSE 0
           made == IF venueEndpoint = 0 THEN "none"
                   ELSE connectOutputEndpoint(performer[s],
                                              sinkEndpoints[venueEndpoint].isMIDI,
                                              outputID)
           id == adapterCount + 1
       IN  /\ ret' = BoolRet(made # "none")
           /\ adapterCount' = IF made # "none" THEN id ELSE adapterCount
           /\ IF made = "stream"
                THEN /\ audioDeviceOutputStream' =
                           [audioDeviceOutputStream EXCEPT ![s] =
                               newStream(outputID, id, 0)]
                     /\ streamSink' =
                           [streamSink EXCEPT ![s] =
                               replaceAdapter(@, audioDeviceOutputStream[s],
                                              outputID, id)]
                ELSE UNCHANGED << audioDeviceOutputStream, streamSink >>
    /\ UNCHANGED << audioDeviceInputStream, streamSource, midiEventQueue >>
    /\ UNCHANGED connectFrame

\* The Venue as its constructor leaves it: the device opened, with or
\* without input and output channels, or failed to open.
InitConnect ==
    /\ InitCommon
    /\ \E open \in BOOLEAN, numIn, numOut \in 0..MaxChannels :
          InitDevice(open, numIn, numOut)
    /\ hasMidiCollector = TRUE
    /\ midiMessage = NoteOn

NextConnect ==
    \/ \E s \in HostedSessions : createSession(s)
    \/ \E s \in HostedSessions : performer[s] = "unloaded" /\ CallLoad(s)
    \/ \E s \in HostedSessions : DestroySession(s)
    \/ \E s \in HostedSessions, inputID \in PortIDs, venueID \in VenueEndpointIDs :
          connectSessionInputEndpoint(s, inputID, venueID)
    \/ \E s \in HostedSessions, outputID \in PortIDs, venueID \in VenueEndpointIDs :
          connectSessionOutputEndpoint(s, outputID, venueID)
    \/ StopCheck
    \/ UnloadPerformer
    \/ UnloadSetState
    \/ LoadPerformer
    \/ LoadSetState

SpecConnect == InitConnect /\ [][NextConnect]_vars

\* ------------------------------------------------------------- packing
\* packMIDIMessageIntoInt on its own, over every message of 1 to 3 bytes
InitPack ==
    /\ InitCommon
    /\ InitDevice(TRUE, MaxChannels, MaxChannels)
    /\ hasMidiCollector = TRUE
    /\ midiMessage = NoteOn

packFrame ==
    << sessionVars, callVars, audioVars, activeSessions, activeSessionLock,
       ctlPc, ret, performerOk, events, deviceVars, currentRateAndBlockSize,
       adapterVars, statusVars, midiVars, watchdogVars, callbackVars,
       quietVars >>

Pack ==
    /\ packedValue' = packMIDIMessageIntoInt(midiMessage)
    /\ UNCHANGED midiMessage
    /\ UNCHANGED packFrame

NextMessage(message) ==
    /\ midiMessage' = message
    /\ packedValue' = -1
    /\ UNCHANGED packFrame

NextPack ==
    \/ Pack
    \/ \E message \in PackMessages : NextMessage(message)

SpecPack == InitPack /\ [][NextPack]_vars

\* ------------------------------------------------------------ getStatus
\* getStatus() may be called at any time; the device and the Performer
\* count their xruns on their own.
statusFrame ==
    << sessionVars, callVars, audioVars, activeSessions, activeSessionLock,
       ctlPc, ret, performerOk, events, currentRateAndBlockSize, adapterVars,
       midiVars, packVars, watchdogVars, callbackVars, quietVars >>

deviceFrame ==
    << audioDevice, numInputChannels, numOutputChannels, deviceSampleRate,
       deviceBlockSize, sourceEndpoints, sinkEndpoints >>

GetStatus(s) ==
    /\ alive[s]
    /\ status' = getStatus(s)
    /\ UNCHANGED << performerXRuns, deviceVars >>
    /\ UNCHANGED statusFrame

\* audioDevice->getXRunCount() reports a new value
DeviceXRuns(count) ==
    /\ audioDevice
    /\ deviceXRuns' = count
    /\ UNCHANGED << performerXRuns, status, deviceFrame >>
    /\ UNCHANGED statusFrame

\* performer->getXRuns() reports a new value
PerformerXRuns(s, count) ==
    /\ alive[s]
    /\ performerXRuns' = [performerXRuns EXCEPT ![s] = count]
    /\ UNCHANGED << status, deviceVars >>
    /\ UNCHANGED statusFrame

InitStatus ==
    /\ InitCommon
    /\ \E open \in BOOLEAN : InitDevice(open, MaxChannels, MaxChannels)
    /\ hasMidiCollector = TRUE
    /\ midiMessage = NoteOn

NextStatus ==
    \/ \E s \in HostedSessions : createSession(s)
    \/ \E s \in HostedSessions : performer[s] = "unloaded" /\ CallLoad(s)
    \/ \E s \in HostedSessions : CallLink(s)
    \/ \E s \in HostedSessions : CallStart(s)
    \/ \E s \in HostedSessions : GetStatus(s)
    \/ \E count \in DeviceXRunSamples : DeviceXRuns(count)
    \/ \E s \in HostedSessions, count \in PerformerXRunSamples :
          PerformerXRuns(s, count)
    \/ StopCheck
    \/ UnloadPerformer
    \/ UnloadSetState
    \/ LoadPerformer
    \/ LoadSetState
    \/ Link
    \/ LinkSetState
    \/ StartCheck
    \/ StartSessionLock
    \/ StartSessionAdd
    \/ StartSetState

SpecStatus == InitStatus /\ [][NextStatus]_vars

\* ------------------------------------------------------- the stall watchdog
\* Time is counted in periods of the 3 Hz timer.  The timer callback runs
\* when the message thread gets to it, so a check may come at any time.
watchdogFrame ==
    << sessionVars, callVars, audioVars, activeSessions, activeSessionLock,
       ctlPc, ret, performerOk, events, deviceVars, currentRateAndBlockSize,
       adapterVars, statusVars, midiVars, packVars, callbackVars,
       deviceStarted, streamResult, libraryVars, aboutToStart >>

Tick ==
    /\ terminations = 0
    /\ now < MaxTime
    /\ now' = now + 1
    /\ UNCHANGED << audioCallbackCount, lastCallbackCount,
                    lastCallbackCountChange, terminations, lastAdvance,
                    checkedAt, timerVars >>
    /\ UNCHANGED watchdogFrame

\* timerCallback: checkMIDIDevices, which reopens the MIDI devices when the
\* last look at them is more than two seconds old
checkMIDIDevices ==
    IF midiCheckDue(lastMIDIDeviceCheck, now)
      THEN /\ lastMIDIDeviceCheck' = now
           /\ timerInterval' = openMIDIDevices(timerInterval)
      ELSE UNCHANGED timerVars

\* timerCallback: checkForStalledProcessor; std::terminate() ends the process
checkForStalledProcessor ==
    /\ terminations = 0
    /\ LET changed == lastCallbackCount # audioCallbackCount
           last == audioCallbackCount
           lastChange == IF changed THEN now ELSE lastCallbackCountChange
       IN  /\ lastCallbackCount' = last
           /\ lastCallbackCountChange' = lastChange
           /\ terminations' = IF stalled(last, lastChange, now)
                                 THEN terminations + 1
                                 ELSE terminations
    /\ checkedAt' = now
    /\ UNCHANGED << now, audioCallbackCount, lastAdvance >>
    /\ UNCHANGED watchdogFrame

timerCallback ==
    /\ checkMIDIDevices
    /\ checkForStalledProcessor

NextWatchdog ==
    \/ Tick
    \/ timerCallback
    \/ AudioCallbackBegin
    \/ AudioCallbackLock
    \/ AudioCallbackUnlock
    \/ AudioCallbackEnd

SpecWatchdog == Init /\ [][NextWatchdog]_vars

\* ------------------------------------------------------------ MIDI input
\* handleIncomingMidiMessage: with a collector it runs on the MIDI thread;
\* without one (JUCE_BELA) the MIDI is handled within the audio thread,
\* between two callbacks
handleIncomingMidiMessage(message) ==
    /\ midiMessage' = message
    /\ IF acceptsMidiMessage(message)
         THEN IF hasMidiCollector
                THEN /\ Len(midiCollector) < MaxMidiPerBlock
                     /\ midiCollector' = Append(midiCollector, message)
                     /\ UNCHANGED incomingMIDI
                ELSE /\ audioPc = "idle"
                     /\ Len(incomingMIDI) < MaxMidiPerBlock
                     /\ incomingMIDI' =
                           Append(incomingMIDI,
                                  [samplePosition |-> 0, message |-> message])
                     /\ UNCHANGED midiCollector
         ELSE UNCHANGED << midiCollector, incomingMIDI >>
    /\ UNCHANGED << hasMidiCollector, delivered, packedValue >>
    /\ UNCHANGED << sessionVars, callVars, audioVars, activeSessions,
                    activeSessionLock, ctlPc, ret, performerOk, events,
                    deviceVars, currentRateAndBlockSize, adapterVars,
                    statusVars, watchdogVars, callbackVars, quietVars >>

\* the Venue of either build, its device open
InitMidi ==
    /\ InitCommon
    /\ InitDevice(TRUE, MaxChannels, MaxChannels)
    /\ hasMidiCollector \in BOOLEAN
    /\ midiMessage = NoteOn

NextMidi ==
    \/ \E s \in HostedSessions : createSession(s)
    \/ \E s \in HostedSessions : performer[s] = "unloaded" /\ CallLoad(s)
    \/ \E s \in HostedSessions : state[s] = "loaded" /\ CallLink(s)
    \/ \E s \in HostedSessions : state[s] = "linked" /\ CallStart(s)
    \/ \E s \in HostedSessions :
          /\ midiEventQueue[s] = NoAdapter
          /\ connectSessionInputEndpoint(s, "midiIn", "defaultMidiIn")
    \/ \E message \in MidiMessages : handleIncomingMidiMessage(message)
    \/ StopCheck
    \/ UnloadPerformer
    \/ UnloadSetState
    \/ LoadPerformer
    \/ LoadSetState
    \/ Link
    \/ LinkSetState
    \/ StartCheck
    \/ StartSessionLock
    \/ StartSessionAdd
    \/ StartSetState
    \/ AudioCallbackBegin
    \/ AudioCallbackLock
    \/ AudioProcessBlock
    \/ AudioCallbackUnlock
    \/ AudioCallbackEnd

SpecMidi == InitMidi /\ [][NextMidi]_vars

\* ------------------------------------------------------- stream bridges
\* While the Performer advances it asks the stream-source callback its input
\* endpoint holds for frames, and offers frames to the stream-sink callback
\* its output endpoint holds, any number of times and in any order.
FrameCounts == {BlockSize \div 2, BlockSize}

streamFrame ==
    << sessionVars, callVars, audioVars, activeSessions, activeSessionLock,
       ctlPc, ret, performerOk, events, deviceVars, currentRateAndBlockSize,
       midiEventQueue, streamSource, streamSink, adapterCount, preAdapters,
       statusVars, midiVars, packVars, watchdogVars, blockSteps, loadMeasurer,
       deviceStarted, timerVars, libraryVars, aboutToStart >>

\* the session whose Performer the callback under way is advancing
Advancing(s) ==
    /\ audioPc = "iterate"
    /\ terminations = 0
    /\ blockSessions # <<>>
    /\ s = blockSessions[Len(blockSessions)]

\* performer->advance() calls the callback that setStreamSource registered
PerformerRequestsFrames(s, requestedFrames) ==
    /\ Advancing(s)
    /\ audioDeviceInputStream[s] # NoAdapter
    /\ << audioDeviceInputStream[s].port, audioDeviceInputStream[s].id >>
           \in streamSource[s]
    /\ LET request == streamSourceCallback(audioDeviceInputStream[s],
                                           requestedFrames)
       IN  /\ audioDeviceInputStream' =
                 [audioDeviceInputStream EXCEPT ![s] = request.adapter]
           /\ streamResult' = [callback |-> "source", done |-> request.posted,
                               frames |-> requestedFrames]
    /\ UNCHANGED << audioDeviceOutputStream, hardwareOutput >>
    /\ UNCHANGED streamFrame

\* performer->advance() calls the callback that setStreamSink registered
PerformerOffersFrames(s, num) ==
    /\ Advancing(s)
    /\ audioDeviceOutputStream[s] # NoAdapter
    /\ << audioDeviceOutputStream[s].port, audioDeviceOutputStream[s].id >>
           \in streamSink[s]
    /\ LET offer == streamSinkCallback(audioDeviceOutputStream[s], num)
       IN  /\ audioDeviceOutputStream' =
                 [audioDeviceOutputStream EXCEPT ![s] = offer.adapter]
           /\ hardwareOutput' = IF offer.written THEN "written"
                                ELSE hardwareOutput
           /\ streamResult' = [callback |-> "sink", done |-> offer.written,
                               frames |-> offer.returned]
    /\ UNCHANGED audioDeviceInputStream
    /\ UNCHANGED streamFrame

\* One session on an open device: the host loads it, connects its
\* endpoints to the device's at any time, links and starts it, while MIDI
\* comes in.
NextStream ==
    \/ \E s \in HostedSessions : createSession(s)
    \/ \E s \in HostedSessions : performer[s] = "unloaded" /\ CallLoad(s)
    \/ \E s \in HostedSessions : state[s] = "loaded" /\ CallLink(s)
    \/ \E s \in HostedSessions : state[s] = "linked" /\ CallStart(s)
    \/ \E s \in HostedSessions :
          connectSessionInputEndpoint(s, "audioIn", "defaultIn")
    \/ \E s \in HostedSessions :
          connectSessionOutputEndpoint(s, "audioOut", "defaultOut")
    \/ \E s \in HostedSessions :
          connectSessionInputEndpoint(s, "midiIn", "defaultMidiIn")
    \/ midiCollector = <<>> /\ handleIncomingMidiMessage(NoteOn)
    \/ \E s \in HostedSessions, requestedFrames \in FrameCounts :
          PerformerRequestsFrames(s, requestedFrames)
    \/ \E s \in HostedSessions, num \in FrameCounts :
          PerformerOffersFrames(s, num)
    \/ StopCheck
    \/ UnloadPerformer
    \/ UnloadSetState
    \/ LoadPerformer
    \/ LoadSetState
    \/ Link
    \/ LinkSetState
    \/ StartCheck
    \/ StartSessionLock
    \/ StartSessionAdd
    \/ StartSetState
    \/ AudioCallbackBegin
    \/ AudioCallbackLock
    \/ AudioProcessBlock
    \/ AudioCallbackUnlock
    \/ AudioCallbackEnd

SpecStream == Init /\ [][NextStream]_vars

\* ------------------------------------------------ device start and stop
\* The device tells the Venue when it has stopped and when it is about to
\* start again; it makes neither call while a callback is under way.
restartFrame ==
    << sessionVars, callVars, audioVars, activeSessions, activeSessionLock,
       ctlPc, ret, performerOk, events, deviceVars, adapterVars, statusVars,
       hasMidiCollector, incomingMIDI, delivered, packVars, blockSteps,
       hardwareOutput, streamResult, timerVars, libraryVars >>

deviceEventFrame == << restartFrame, aboutToStart >>

\* audioDeviceStopped: under the lock, deviceStopped() on every active
\* session; then loadMeasurer.reset()
audioDeviceStoppedKeepingLoad ==
    /\ audioDevice
    /\ deviceStarted
    /\ audioPc = "idle"
    /\ lockFree(activeSessionLock, "device")
    /\ currentRateAndBlockSize' =
          [s \in Sessions |-> IF InSeq(activeSessions, s)
                                THEN NoRateAndBlockSize
                                ELSE currentRateAndBlockSize[s]]
    /\ UNCHANGED loadMeasurer
    /\ deviceStarted' = FALSE
    /\ UNCHANGED << midiCollector, watchdogVars >>
    /\ UNCHANGED deviceEventFrame

audioDeviceStopped ==
    /\ audioDevice
    /\ deviceStarted
    /\ audioPc = "idle"
    /\ lockFree(activeSessionLock, "device")
    /\ currentRateAndBlockSize' =
          [s \in Sessions |-> IF InSeq(activeSessions, s)
                                THEN NoRateAndBlockSize
                                ELSE currentRateAndBlockSize[s]]
    /\ loadMeasurer' = "reset"
    /\ deviceStarted' = FALSE
    /\ UNCHANGED << midiCollector, watchdogVars >>
    /\ UNCHANGED deviceEventFrame

\* audioDeviceAboutToStart: the counts go back to 0, the MIDI collector and
\* the load measurer are reset, and, under the lock, every active session
\* takes the device's rate and block size
audioDeviceAboutToStart ==
    /\ audioDevice
    /\ ~ deviceStarted
    /\ audioPc = "idle"
    /\ lockFree(activeSessionLock, "device")
    /\ lastCallbackCount' = 0
    /\ audioCallbackCount' = 0
    /\ midiCollector' = <<>>
    /\ loadMeasurer' = "reset"
    /\ currentRateAndBlockSize' =
          [s \in Sessions |->
              IF InSeq(activeSessions, s)
                THEN updateDeviceProperties(deviceSampleRate, deviceBlockSize)
                ELSE currentRateAndBlockSize[s]]
    /\ deviceStarted' = TRUE
    /\ UNCHANGED << now, lastCallbackCountChange, terminations, lastAdvance,
                    checkedAt >>
    /\ UNCHANGED deviceEventFrame

\* One session, started and stopped by its host, on a device that stops and
\* starts again.
NextDevice ==
    \/ \E s \in HostedSessions : createSession(s)
    \/ \E s \in HostedSessions : performer[s] = "unloaded" /\ CallLoad(s)
    \/ \E s \in HostedSessions : state[s] = "loaded" /\ CallLink(s)
    \/ \E s \in HostedSessions : state[s] = "linked" /\ CallStart(s)
    \/ \E s \in HostedSessions : state[s] = "running" /\ CallStop(s)
    \/ audioDeviceStopped
    \/ audioDeviceAboutToStart
    \/ StopCheck
    \/ StopSessionLock
    \/ StopSessionRemove
    \/ StopSetState
    \/ UnloadPerformer
    \/ UnloadSetState
    \/ LoadPerformer
    \/ LoadSetState
    \/ Link
    \/ LinkSetState
    \/ StartCheck
    \/ StartSessionLock
    \/ StartSessionAdd
    \/ StartSetState
    \/ AudioCallbackBegin
    \/ AudioCallbackLock
    \/ AudioProcessBlock
    \/ AudioCallbackUnlock
    \/ AudioCallbackEnd

SpecDevice == Init /\ [][NextDevice]_vars

\* ---------------------------------------------------------- properties
EventSet == { events[i] : i \in 1..Len(events) }

Before(a, b) ==
    \A i, j \in 1..Len(events) : (events[i] = a /\ events[j] = b) => i < j

Returned(op) == ctlOp = op /\ ctlPc = "done"

CallbackEvents == { CallbackEvent(st) : st \in States }

NoDuplicates(q) == \A i, j \in 1..Len(q) : q[i] = q[j] => i = j

\* C1: start() succeeds (returns true, having moved the session into running
\* and added it to activeSessions) exactly when the session was linked at the
\* call; from empty, loaded and running it leaves the state, activeSessions
\* and isRunning() as they were and does nothing else.
C1_StartSucceedsIffLinked ==
    Returned("start") =>
        LET s == ctlSession
            succeeded == /\ ret = "true"
                         /\ preState # "running" /\ state[s] = "running"
                         /\ ~ InSeq(preActive, s) /\ InSeq(activeSessions, s)
        IN  /\ succeeded <=> preState = "linked"
            /\ ret = BoolRet(isRunning(state[s]))
            /\ preState # "linked" =>
                  /\ state[s] = preState
                  /\ activeSessions = preActive
                  /\ isRunning(state[s]) = isRunning(preState)
                  /\ events = <<>>

C1_Witness ==
    /\ Returned("start") /\ preState = "linked" /\ ret = "true"
    /\ state[ctlSession] = "running" /\ InSeq(activeSessions, ctlSession)

\* C2: stop() on a running session takes it out of activeSessions and leaves
\* it linked; stop() in any other state changes neither the state nor
\* activeSessions and fires no state-change callback.
C2_StopDeregistersOrNoOp ==
    Returned("stop") =>
        LET s == ctlSession
        IN  IF preState = "running"
              THEN /\ state[s] = "linked"
                   /\ ~ InSeq(activeSessions, s)
                   /\ activeSessions = SelectSeq(preActive, LAMBDA x : x # s)
              ELSE /\ state[s] = preState
                   /\ activeSessions = preActive
                   /\ EventSet \cap CallbackEvents = {}
                   /\ events = <<>>

C2_Witness ==
    /\ Returned("stop") /\ preState = "running" /\ stateChangeCallback[ctlSession]
    /\ InSeq(preActive, ctlSession) /\ Len(preActive) = 2

\* C3 as stated: after stop() returns the state is linked, whatever it was.
C3_StopAlwaysLandsOnLinked ==
    Returned("stop") => state[ctlSession] = "linked"

\* C3 amended: after stop() returns the state is linked if the session was
\* running or linked at the call and is otherwise what it was; stop() never
\* moves a session into empty.
C3_StopLinkedOrUnchanged ==
    Returned("stop") =>
        /\ state[ctlSession] = IF preState = "running" THEN "linked" ELSE preState
        /\ state[ctlSession] = "empty" => preState = "empty"

C3_Witness ==
    /\ Returned("stop") /\ preState = "running" /\ state[ctlSession] = "linked"
    /\ "set_linked" \in EventSet

\* C4: unload() from any state ends with the session empty and out of
\* activeSessions, and calls the Performer's unload() after the session was
\* deregistered.
C4_UnloadEndsEmpty ==
    ctlOp = "unload" =>
        LET s == ctlSession
        IN  /\ ctlPc \in {"unload_performer", "unload_set", "done"} =>
                  ~ InSeq(activeSessions, s)
            /\ ctlPc \in {"unload_set", "done"} =>
                  /\ "performer_unload" \in EventSet
                  /\ performer[s] = "unloaded"
                  /\ Before("stopSession", "performer_unload")
                  /\ preState = "running" => "stopSession" \in EventSet
            /\ ctlPc = "done" => state[s] = "empty"

C4_Witness ==
    /\ Returned("unload") /\ preState = "running"
    /\ state[ctlSession] = "empty" /\ "stopSession" \in EventSet

\* C5: the state value of a session only ever changes empty->loaded,
\* loaded->linked, linked->running, running->linked, loaded->empty or
\* linked->empty.
LegalTransitions ==
    { <<"empty", "loaded">>, <<"loaded", "linked">>, <<"linked", "running">>,
      <<"running", "linked">>, <<"loaded", "empty">>, <<"linked", "empty">> }

C5_OnlyLegalTransitions ==
    [][ \A s \in Sessions :
           state'[s] # state[s] => <<state[s], state'[s]>> \in LegalTransitions ]_vars

C5_Witness ==
    /\ Returned("load") /\ preState = "running" /\ state[ctlSession] = "loaded"
    /\ {"set_linked", "set_empty", "set_loaded"} \subseteq EventSet

\* C6 as stated: a session that becomes empty was linked just before.
C6_EmptyOnlyFromLinked ==
    [][ \A s \in Sessions :
           (state'[s] = "empty" /\ state[s] # "empty") => state[s] = "linked" ]_vars

\* C6 amended: a session that becomes empty was linked just before when it
\* was running or linked at the call; a session that was loaded at the call
\* goes from loaded to empty directly.
C6_EmptyFromLinkedUnlessLoaded ==
    [][ \A s \in Sessions :
           (state'[s] = "empty" /\ state[s] # "empty") =>
              /\ s = ctlSession
              /\ ctlOp \in {"unload", "load", "destroy"}
              /\ state[s] = IF preState = "loaded" THEN "loaded" ELSE "linked" ]_vars

C6_Witness ==
    /\ Returned("destroy") /\ preState = "running"
    /\ state[ctlSession] = "empty" /\ Before("set_linked", "set_empty")
    /\ {"set_linked", "set_empty"} \subseteq EventSet

\* C7: startSession and stopSession are idempotent, keep every session at
\* most once in activeSessions, return true and change activeSessions only
\* while the control thread holds activeSessionLock.
C7_RegistryIdempotent ==
    /\ NoDuplicates(activeSessions)
    /\ ctlPc \in {"start_add", "stop_remove"} =>
          /\ activeSessionLock = "control"
          /\ audioPc # "iterate"
    /\ Returned("startSession") =>
          /\ ret = "true"
          /\ activeSessions = IF InSeq(preActive, ctlSession) THEN preActive
                              ELSE Append(preActive, ctlSession)
    /\ Returned("stopSession") =>
          /\ ret = "true"
          /\ ~ InSeq(activeSessions, ctlSession)
          /\ activeSessions = SelectSeq(preActive, LAMBDA x : x # ctlSession)
          /\ ~ InSeq(preActive, ctlSession) => activeSessions = preActive

C7_Witness ==
    /\ Returned("startSession") /\ InSeq(preActive, ctlSession)
    /\ Len(activeSessions) = 2

\* C8: in every reachable state, the ones inside start() and stop() included,
\* every session in activeSessions has state running.
C8_ActiveSessionsAreRunning ==
    \A i \in 1..Len(activeSessions) : state[activeSessions[i]] = "running"

\* C9: load() first unloads, then returns true with the session loaded iff
\* the Performer's load succeeded; when it failed load() returns false with
\* the session empty and out of activeSessions.
C9_LoadUnloadsThenLoads ==
    Returned("load") =>
        LET s == ctlSession
        IN  /\ ret \in {"true", "false"}
            /\ ret = "true" <=> performerOk
            /\ ret = "true" => state[s] = "loaded"
            /\ ret = "false" => state[s] = "empty"
            /\ ~ InSeq(activeSessions, s)
            /\ {"performer_unload", "performer_load"} \subseteq EventSet
            /\ Before("performer_unload", "performer_load")
            /\ Before("stopSession", "performer_unload")
            /\ preState = "running" => "stopSession" \in EventSet

C9_Witness ==
    /\ Returned("load") /\ preState = "running" /\ ret = "false"
    /\ state[ctlSession] = "empty"

\* C10: link() returns true, with the session linked, only from loaded and
\* when the Performer's link succeeded; from empty, linked and running it
\* returns false, leaves the state and does not call the Performer's link;
\* when the Performer's link fails the session stays loaded.
C10_LinkOnlyFromLoaded ==
    Returned("link") =>
        LET s == ctlSession
        IN  /\ ret \in {"true", "false"}
            /\ ret = "true" <=> (preState = "loaded" /\ performerOk)
            /\ ret = "true" => state[s] = "linked"
            /\ preState # "loaded" =>
                  /\ state[s] = preState
                  /\ "performer_link" \notin EventSet
            /\ (preState = "loaded" /\ ~ performerOk) => state[s] = "loaded"

C10_Witness ==
    /\ Returned("link") /\ preState = "loaded" /\ ~ performerOk
    /\ ret = "false" /\ "performer_link" \in EventSet

\* C11: with a callback installed, every change of a session's state value
\* invokes the callback exactly once, inside the step that makes the change
\* and with the state already stored, and a step that leaves the state value
\* alone invokes no callback.
Callbacks(ev) == SelectSeq(ev, LAMBDA e : e \in CallbackEvents)

C11_CallbackOncePerChange ==
    [][ LET s == ctlSession'
            before == IF events' = <<>> THEN <<>> ELSE Callbacks(events)
            changed == state'[s] # state[s] /\ stateChangeCallback[s]
        IN  /\ \A o \in Sessions \ {s} : state'[o] = state[o]
            /\ Callbacks(events') =
                  before \o (IF changed THEN <<CallbackEvent(state'[s])>> ELSE <<>>) ]_vars

C11_Witness ==
    /\ Returned("unload") /\ preState = "running"
    /\ Callbacks(events) = <<"callback_linked", "callback_empty">>

\* C19: a destroyed session is never in activeSessions, the audio callback
\* only gives processBlock to sessions that exist, and activeSessions is empty
\* once every session is destroyed.
C19_DestroyedNeverActive ==
    /\ \A s \in Sessions : ~ alive[s] => ~ InSeq(activeSessions, s)
    /\ audioPc = "iterate" =>
          \A i \in 1..Len(blockSessions) : alive[blockSessions[i]]
    /\ (\A s \in Sessions : ~ alive[s]) => activeSessions = <<>>

C19_Witness ==
    /\ Returned("destroy") /\ preState = "running"
    /\ InSeq(preActive, ctlSession) /\ Len(preActive) = 2
    /\ ~ alive[ctlSession]

\* C12: connectSessionInputEndpoint and connectSessionOutputEndpoint return
\* false and leave the session's adapters and state as they were whenever the
\* venue endpoint is not published, no device is open, the Performer has no
\* endpoint with the port ID, or the kinds mismatch.
ConnectCall == preAdapters

PublishedAs(endpoints, venueID) ==
    { endpoints[i].isMIDI : i \in { j \in 1..Len(endpoints) :
                                      endpoints[j].endpointID = venueID } }

ConnectMustFail(endpoints, ports, programLoaded) ==
    \/ ~ audioDevice
    \/ PublishedAs(endpoints, ConnectCall.venueID) = {}
    \/ ~ programLoaded
    \/ ConnectCall.portID \notin DOMAIN ports
    \/ /\ ports[ConnectCall.portID] = "stream"
       /\ TRUE \in PublishedAs(endpoints, ConnectCall.venueID)
    \/ /\ ports[ConnectCall.portID] = "event"
       /\ FALSE \in PublishedAs(endpoints, ConnectCall.venueID)

C12_FailedConnectChangesNothing ==
    /\ (Returned("connectInput")
          /\ ConnectMustFail(sourceEndpoints, PerformerInputs,
                             performer[ctlSession] # "unloaded"))
          => ret = "false" /\ Adapters(ctlSession) = ConnectCall.adapters
    /\ (Returned("connectOutput")
          /\ ConnectMustFail(sinkEndpoints, PerformerOutputs,
                             performer[ctlSession] # "unloaded"))
          => ret = "false" /\ Adapters(ctlSession) = ConnectCall.adapters

C12_Witness ==
    /\ Returned("connectInput") /\ ret = "false"
    /\ audioDevice /\ performer[ctlSession] = "loaded"
    /\ ConnectCall.portID = "audioIn" /\ ConnectCall.venueID = "defaultMidiIn"
    /\ ConnectCall.adapters.input # NoAdapter
    /\ Adapters(ctlSession) = ConnectCall.adapters

\* C13: after a second successful connect of the same kind the session holds
\* only the new adapter, and the Performer endpoint it was connected to has
\* the new adapter's stream callback registered, also when the old and the
\* new adapter are attached to the same endpoint.
C13_ReconnectRegistersNewAdapter ==
    /\ (Returned("connectInput") /\ ret = "true"
          /\ ConnectCall.portID \in DOMAIN PerformerInputs
          /\ PerformerInputs[ConnectCall.portID] = "stream"
          /\ ConnectCall.adapters.input # NoAdapter)
          => /\ audioDeviceInputStream[ctlSession].id = adapterCount
             /\ audioDeviceInputStream[ctlSession].port = ConnectCall.portID
             /\ <<ConnectCall.portID, adapterCount>> \in streamSource[ctlSession]
    /\ (Returned("connectOutput") /\ ret = "true"
          /\ ConnectCall.adapters.output # NoAdapter)
          => /\ audioDeviceOutputStream[ctlSession].id = adapterCount
             /\ audioDeviceOutputStream[ctlSession].port = ConnectCall.portID
             /\ <<ConnectCall.portID, adapterCount>> \in streamSink[ctlSession]

\* C20: once the device is open the sources are defaultIn (iff there is an
\* active input channel) then defaultMidiIn, the sinks are defaultOut (iff
\* there is an active output channel) then defaultMidiOut, the IDs of a list
\* are distinct, and no operation changes either list.
Published(endpoints) ==
    [i \in 1..Len(endpoints) |->
        <<endpoints[i].endpointID, endpoints[i].kind>>]

C20_EndpointRegistryFixed ==
    /\ [](audioDevice =>
            /\ Published(convertEndpointList(sourceEndpoints)) =
                 (IF numInputChannels > 0 THEN << <<"defaultIn", "stream">> >>
                  ELSE <<>>) \o << <<"defaultMidiIn", "event">> >>
            /\ Published(convertEndpointList(sinkEndpoints)) =
                 (IF numOutputChannels > 0 THEN << <<"defaultOut", "stream">> >>
                  ELSE <<>>) \o << <<"defaultMidiOut", "event">> >>
            /\ NoDuplicates([i \in 1..Len(sourceEndpoints) |->
                                sourceEndpoints[i].endpointID])
            /\ NoDuplicates([i \in 1..Len(sinkEndpoints) |->
                                sinkEndpoints[i].endpointID]))
    /\ [][ /\ convertEndpointList(sourceEndpoints') = convertEndpointList(sourceEndpoints)
           /\ convertEndpointList(sinkEndpoints') = convertEndpointList(sinkEndpoints) ]_vars

C20_Witness ==
    /\ audioDevice /\ numInputChannels = 0 /\ numOutputChannels > 0
    /\ Len(sourceEndpoints) = 1 /\ Len(sinkEndpoints) = 2
    /\ Returned("connectOutput") /\ ret = "true"

\* C14: for a message of 1 to 3 bytes packMIDIMessageIntoInt returns
\* byte0*65536 + byte1*256 + byte2, a byte beyond the message's length
\* counting as 0, so bits 24-31 are zero; [0x90,0x40,0x7F] packs to 0x90407F.
ByteOf(message, i) == IF i <= Len(message) THEN message[i] ELSE 0

C14_PackedLayout ==
    packedValue # -1 =>
        /\ Len(midiMessage) \in 1..3
        /\ packedValue = ByteOf(midiMessage, 1) * 65536
                            + ByteOf(midiMessage, 2) * 256
                            + ByteOf(midiMessage, 3)
        /\ packedValue >= 0 /\ packedValue < 16777216
        /\ (midiMessage = <<144, 64, 127>> => packedValue = 9453695)

C14_Witness ==
    /\ midiMessage = <<144, 64, 127>> /\ packedValue = 9453695

\* C18: getStatus() reports the session's state, its sample rate and block
\* size snapshot, and the Performer's xrun count plus the device's count,
\* the device's count being added only when a device is open and the count
\* is positive; the sum wraps at 32 bits.
ExpectedXRuns(own, added) ==
    LET low == own.lo + added
    IN  [hi |-> (own.hi + (IF low >= 65536 THEN 1 ELSE 0)) % 65536,
         lo |-> low % 65536]

C18_StatusReport ==
    [][ status' # status =>
          LET s == status'.session
          IN  /\ status'.state = state[s]
              /\ status'.sampleRate = currentRateAndBlockSize[s].sampleRate
              /\ status'.blockSize = currentRateAndBlockSize[s].blockSize
              /\ status'.xruns =
                    IF audioDevice /\ deviceXRuns > 0
                      THEN ExpectedXRuns(performerXRuns[s], deviceXRuns)
                      ELSE performerXRuns[s] ]_vars

C18_Witness ==
    /\ status.state = "running" /\ audioDevice /\ deviceXRuns = 1
    /\ status.sampleRate = collectorSampleRate /\ status.blockSize = BlockSize
    /\ performerXRuns[status.session] = [hi |-> 65535, lo |-> 65535]
    /\ status.xruns = [hi |-> 0, lo |-> 0]

\* C15: an incoming MIDI message of 4 or more bytes is added neither to the
\* MIDI collector nor to the incoming MIDI buffer, so no such message is
\* ever pending or handed to a session, and the pending shorter messages
\* stay as they were.
C15_LongMessagesRejected ==
    /\ [](/\ \A i \in 1..Len(midiCollector) : Len(midiCollector[i]) < 4
          /\ \A i \in 1..Len(incomingMIDI) : Len(incomingMIDI[i].message) < 4)
    /\ [][ \A message \in MidiMessages :
             (handleIncomingMidiMessage(message) /\ Len(message) >= 4)
                => /\ midiCollector' = midiCollector
                   /\ incomingMIDI' = incomingMIDI
                   /\ delivered' = delivered ]_vars

C15_Witness ==
    /\ midiMessage = SysEx
    /\ midiCollector = <<NoteOn, ProgramChange>>

\* C16: the events of a block reach the session's Performer in the order
\* they were enqueued, whatever their sample positions: (5, A) enqueued
\* before (2, B) is delivered as [A, B].
EnqueuedInOrder(midiEvents) ==
    [i \in 1..Len(midiEvents) |->
        <<midiEvents[i].samplePosition, packMIDIMessageIntoInt(midiEvents[i].message)>>]

C17_StalledCheckTerminates ==
    (checkedAt = now /\ lastAdvance >= 0 /\ now > lastAdvance + stallTimeout)
        => terminations = 1

\* C17: a watchdog check terminates the process exactly when the count it
\* reads is non-zero, is the count the previous check saw, and more than
\* 2 seconds have passed since the last check that saw the count change;
\* the process terminates at most once.
C17_TerminatesAfterUnchangedChecks ==
    /\ [](terminations <= 1)
    /\ [][ checkForStalledProcessor =>
             ((terminations' = terminations + 1)
                <=> /\ audioCallbackCount # 0
                    /\ audioCallbackCount = lastCallbackCount
                    /\ now > lastCallbackCountChange + 2 * timerHz) ]_vars

C17_Witness ==
    /\ terminations = 1 /\ checkedAt = now
    /\ lastAdvance >= 0 /\ now > lastCallbackCountChange + stallTimeout

\* C24: the process is terminated only by a check that read a non-zero
\* callback count, made more than 2 seconds after the last check that saw
\* the count change; so an audio callback has run before, and the counter
\* has not advanced since that last change was seen.
C24_TerminatesOnlyWhenStalled ==
    terminations # 0 =>
        /\ lastCallbackCount # 0
        /\ audioCallbackCount = lastCallbackCount
        /\ lastAdvance >= 0
        /\ lastAdvance <= lastCallbackCountChange
        /\ checkedAt > lastCallbackCountChange + stallTimeoutSeconds * timerHz

C24_Witness ==
    /\ terminations = 1
    /\ lastCallbackCount > 1
    /\ lastAdvance < lastCallbackCountChange

\* C29 as stated: the timer keeps the period of about 3 Hz that the
\* constructor gave it; no timer callback changes it.
C29_TimerStaysAt3Hz == timerInterval = 1000 \div timerHz

\* C30: the active sessions change only while the audio callback is not
\* iterating them; while the callback holds the lock, every session it has
\* processed in this callback is still registered; and the Performer of a
\* session is unloaded only when the session is not registered, so never
\* while the callback prepares and advances it.
C30_CancellationBetweenBlocks ==
    /\ [](audioPc = "iterate" =>
             /\ activeSessionLock = "audio"
             /\ audioIndex = Len(blockSessions) + 1
             /\ \A i \in 1..Len(blockSessions) :
                    activeSessions[i] = blockSessions[i])
    /\ [][ activeSessions' # activeSessions => audioPc # "iterate" ]_vars
    /\ [][ UnloadPerformer => ~ InSeq(activeSessions, ctlSession) ]_vars

\* stop() of a session the callback under way has processed waits for the
\* lock
C30_Witness ==
    /\ audioPc = "iterate"
    /\ ctlPc = "stop_lock"
    /\ InSeq(blockSessions, ctlSession)
    /\ audioIndex <= Len(activeSessions)

\* the places of a call in a processBlock
StepRank == [enqueueEvent |-> 1, setInputBuffer |-> 2, setOutputBuffer |-> 2,
             prepare |-> 3, advance |-> 4]

Occurrences(steps, step) == Cardinality({ i \in 1..Len(steps) : steps[i] = step })

\* C21: a processBlock enqueues the block's MIDI events (when the session has
\* an event queue and the block has MIDI), hands the hardware buffers to the
\* stream adapters the session has, then prepares and then advances the
\* Performer, each once and in this order; output is written only while a
\* session is advanced, after all of this.
C21_ProcessBlockOrder ==
    /\ [](blockSteps # <<>> =>
             /\ \A i, j \in 1..Len(blockSteps) :
                    i < j => StepRank[blockSteps[i]] <= StepRank[blockSteps[j]]
             /\ \A step \in DOMAIN StepRank : Occurrences(blockSteps, step) <= 1
             /\ Occurrences(blockSteps, "prepare") = 1
             /\ Occurrences(blockSteps, "advance") = 1)
    /\ [](hardwareOutput = "written" =>
             /\ blockSteps # <<>>
             /\ blockSteps[Len(blockSteps)] = "advance"
             /\ Occurrences(blockSteps, "setOutputBuffer") = 1)
    /\ [][ AudioProcessBlock =>
             LET s == activeSessions[audioIndex]
             IN  /\ (Occurrences(blockSteps', "enqueueEvent") = 1)
                        <=> (midiEventQueue[s] # NoAdapter /\ incomingMIDI # <<>>)
                 /\ (Occurrences(blockSteps', "setInputBuffer") = 1)
                        <=> (audioDeviceInputStream[s] # NoAdapter)
                 /\ (Occurrences(blockSteps', "setOutputBuffer") = 1)
                        <=> (audioDeviceOutputStream[s] # NoAdapter) ]_vars

C21_Witness ==
    /\ blockSteps = << "enqueueEvent", "setOutputBuffer", "prepare", "advance" >>
    /\ hardwareOutput = "written"

\* C22: until the total of processed samples exceeds 15000 no processBlock
\* is called, no stream adapter is given a hardware buffer, and the output
\* buffers of a callback under way stay cleared.
C22_NothingBeforeWarmUp ==
    totalSamplesProcessed <= 15000 =>
        /\ blockSessions = <<>>
        /\ blockSteps = <<>>
        /\ \A s \in Sessions :
              /\ audioDeviceInputStream[s] # NoAdapter =>
                    ~ audioDeviceInputStream[s].bufferAvailable
              /\ audioDeviceOutputStream[s] # NoAdapter =>
                    ~ audioDeviceOutputStream[s].bufferAvailable
        /\ audioPc # "idle" => hardwareOutput = "cleared"

\* a callback that begins with exactly 15000 samples processed, a session
\* with both stream adapters registered
C22_Witness ==
    /\ audioPc = "end"
    /\ totalSamplesProcessed = 15000
    /\ \E s \in Sessions :
          /\ InSeq(activeSessions, s)
          /\ audioDeviceInputStream[s] # NoAdapter
          /\ audioDeviceOutputStream[s] # NoAdapter

\* C23 as stated: a callback that begins with a running session registered,
\* during the warm-up too, goes on to iterate the active sessions, to
\* prepare and advance their Performers.
C23_WarmUpCallbacksAdvanceSessions ==
    [][ (/\ AudioCallbackBegin
         /\ \E i \in 1..Len(activeSessions) :
               state[activeSessions[i]] = "running")
          => audioPc' = "lock" ]_vars

\* C25: a frame request posts frames only when the adapter's buffer was set
\* by this callback's processBlock and is not used up; a request to an
\* adapter without an available buffer posts nothing and leaves the adapter
\* as it is.
C25_PostsOnlyFromAvailableBuffer ==
    /\ [](\A s \in Sessions :
             (audioDeviceInputStream[s] # NoAdapter
                /\ audioDeviceInputStream[s].bufferAvailable)
               => audioDeviceInputStream[s].bufferOffset
                    < audioDeviceInputStream[s].numFrames)
    /\ [][ \A s \in Sessions, requestedFrames \in FrameCounts :
             PerformerRequestsFrames(s, requestedFrames) =>
               LET adapter == audioDeviceInputStream[s]
               IN  /\ streamResult'.done =>
                         /\ adapter.bufferAvailable
                         /\ adapter.bufferOffset < adapter.numFrames
                         /\ Occurrences(blockSteps, "setInputBuffer") = 1
                   /\ (~ adapter.bufferAvailable) =>
                         /\ ~ streamResult'.done
                         /\ audioDeviceInputStream'[s] = adapter ]_vars

\* a request after the buffer was used up
C25_Witness ==
    /\ streamResult.callback = "source"
    /\ ~ streamResult.done
    /\ \E s \in Sessions :
          /\ audioDeviceInputStream[s] # NoAdapter
          /\ audioDeviceInputStream[s].numFrames > 0
          /\ audioDeviceInputStream[s].bufferOffset
                >= audioDeviceInputStream[s].numFrames

\* C26: the sink callback returns the number of frames it was offered,
\* whatever the adapter's state; without an available buffer it writes
\* nothing and leaves the adapter, its offset included, as it is.
C26_SinkTakesEveryFrame ==
    [][ \A s \in Sessions, num \in FrameCounts :
          PerformerOffersFrames(s, num) =>
            LET adapter == audioDeviceOutputStream[s]
            IN  /\ streamResult'.frames = num
                /\ (~ adapter.bufferAvailable
                      \/ adapter.bufferOffset >= adapter.numFrames) =>
                      /\ ~ streamResult'.done
                      /\ audioDeviceOutputStream'[s] = adapter
                      /\ hardwareOutput' = hardwareOutput ]_vars

\* an offer after the buffer was filled
C26_Witness ==
    /\ streamResult.callback = "sink"
    /\ ~ streamResult.done
    /\ streamResult.frames \in FrameCounts
    /\ \E s \in Sessions :
          /\ audioDeviceOutputStream[s] # NoAdapter
          /\ audioDeviceOutputStream[s].bufferOffset
                >= audioDeviceOutputStream[s].numFrames
          /\ audioDeviceOutputStream[s].numFrames > 0

\* the adapters a session holds, by identity
AdapterIds(s) ==
    << IF audioDeviceInputStream[s] = NoAdapter THEN 0
       ELSE audioDeviceInputStream[s].id,
       IF audioDeviceOutputStream[s] = NoAdapter THEN 0
       ELSE audioDeviceOutputStream[s].id,
       IF midiEventQueue[s] = NoAdapter THEN 0 ELSE midiEventQueue[s].id >>

\* C28 as stated: no adapter of a session is created, replaced or destroyed
\* while the audio callback holds the active-session lock and is inside that
\* session's processBlock.
C28_AdaptersChangeUnderLock ==
    [][ \A s \in Sessions :
          AdapterIds(s)' # AdapterIds(s) => ~ Advancing(s) ]_vars

\* C27: from the beginning of a callback to its end the load measurer's last
\* call is startMeasurement, and between callbacks it is not; a callback
\* starts a measurement that is not running and later stops the one it
\* started; the device's stop and its start reset the measurer; nothing else
\* touches it.
C27_MeasurementBracketsCallback ==
    /\ [](audioPc # "idle" <=> loadMeasurer = "startMeasurement")
    /\ [][ AudioCallbackBegin =>
             loadMeasurer # "startMeasurement"
               /\ loadMeasurer' = "startMeasurement" ]_vars
    /\ [][ AudioCallbackEnd =>
             loadMeasurer = "startMeasurement"
               /\ loadMeasurer' = "stopMeasurement" ]_vars
    /\ [][ (deviceStarted' # deviceStarted) => loadMeasurer' = "reset" ]_vars
    /\ [][ loadMeasurer' # loadMeasurer =>
             \/ audioPc' # audioPc
             \/ deviceStarted' # deviceStarted ]_vars

\* the device has stopped after a callback that processed a session
C27_Witness ==
    /\ ~ deviceStarted
    /\ loadMeasurer = "reset"
    /\ totalSamplesProcessed > numWarmUpSamples + BlockSize
    /\ activeSessions # <<>>

\* ------------------------------------------------------------- the library
\* what the library's functions and pointers leave alone
libraryFrame ==
    << sessionVars, callVars, audioVars, activeSessions, activeSessionLock,
       ctlPc, ret, performerOk, events, deviceVars, currentRateAndBlockSize,
       adapterVars, statusVars, midiVars, packVars, watchdogVars, callbackVars,
       deviceStarted, streamResult, timerVars, aboutToStart >>

\* a program is about to call wrap (n, range)
WrapArguments(n, range) ==
    /\ wrapCall' = [n |-> n, range |-> range, called |-> FALSE, result |-> 0]
    /\ UNCHANGED << source, refLog, libraryFrame >>

\* the call returns
Wrap ==
    /\ ~ wrapCall.called
    /\ wrapCall' = [wrapCall EXCEPT !.called = TRUE,
                                    !.result = wrap(wrapCall.n, wrapCall.range)]
    /\ UNCHANGED << source, refLog, libraryFrame >>

NextWrap ==
    \/ \E n \in WrapNumbers, range \in WrapRanges : WrapArguments(n, range)
    \/ Wrap

SpecWrap == Init /\ [][NextWrap]_vars

\* C36: wrap (n, range) with range > 0 returns the one r with 0 <= r < range
\* that is congruent to n modulo range, for negative n too, and with
\* range = 0 it returns 0.
C36_WrapIsModulo ==
    wrapCall.called =>
        IF wrapCall.range = 0 THEN wrapCall.result = 0
        ELSE /\ 0 <= wrapCall.result
             /\ wrapCall.result < wrapCall.range
             /\ wrapCall.result = wrapCall.n % wrapCall.range

C36_Witness ==
    /\ wrapCall.called
    /\ wrapCall.n < 0
    /\ wrapCall.range > 1
    /\ wrapCall.n % wrapCall.range # 0
    /\ wrapCall.result = wrapCall.n % wrapCall.range

\* ------------------------------------------------ RefCountingPtr operations
RECURSIVE Total(_, _)
Total(count, n) == IF n = 0 THEN 0 ELSE count[n] + Total(count, n - 1)

\* raw pointers that went into or came out of the RefCountingPtrs
RawPointers == Total(refLog.adopted, NumObjects)
                   + Total(refLog.incremented, NumObjects)

Constructed(p) == source[p] # NoPointer

\* RefCountingPtr() and RefCountingPtr (nullptr)
DefaultConstruct(p) ==
    /\ ~ Constructed(p)
    /\ source' = [source EXCEPT ![p] = Null]
    /\ refLog' = beginOp("construct", p, p)
    /\ UNCHANGED << wrapCall, libraryFrame >>

\* explicit RefCountingPtr (ObjectType* object): takes over the caller's
\* reference
AdoptingConstruct(p, object) ==
    /\ ~ Constructed(p)
    /\ RawPointers < MaxRawPointers
    /\ source' = [source EXCEPT ![p] = object]
    /\ refLog' = [beginOp("adopt", p, p) EXCEPT !.adopted[object] = @ + 1]
    /\ UNCHANGED << wrapCall, libraryFrame >>

\* RefCountingPtr (const RefCountingPtr& other)
CopyConstruct(p, other) ==
    /\ ~ Constructed(p)
    /\ Constructed(other)
    /\ source' = [source EXCEPT ![p] = source[other]]
    /\ refLog' = addRef(source[other], beginOp("copyConstruct", p, other))
    /\ UNCHANGED << wrapCall, libraryFrame >>

\* RefCountingPtr (RefCountingPtr&& other)
MoveConstruct(p, other) ==
    /\ ~ Constructed(p)
    /\ Constructed(other)
    /\ source' = [source EXCEPT ![p] = source[other], ![other] = Null]
    /\ refLog' = beginOp("moveConstruct", p, other)
    /\ UNCHANGED << wrapCall, libraryFrame >>

\* operator= (const RefCountingPtr& other), other may be *this:
\* other.addRef(); release(); source = other.source
CopyAssign(p, other) ==
    /\ Constructed(p)
    /\ Constructed(other)
    /\ LET added == addRef(source[other], beginOp("copyAssign", p, other))
       IN  refLog' = release(source[p], added)
    /\ source' = [source EXCEPT ![p] = source[other]]
    /\ UNCHANGED << wrapCall, libraryFrame >>

\* operator= (RefCountingPtr&& other), other may be *this:
\* release(); source = other.source; other.source = {}
MoveAssign(p, other) ==
    /\ Constructed(p)
    /\ Constructed(other)
    /\ refLog' = release(source[p], beginOp("moveAssign", p, other))
    /\ LET assigned == [source EXCEPT ![p] = source[other]]
       IN  source' = [assigned EXCEPT ![other] = Null]
    /\ UNCHANGED << wrapCall, libraryFrame >>

\* incrementAndGetPointer: addRef(); return source
incrementAndGetPointer(p) ==
    /\ Constructed(p)
    /\ RawPointers < MaxRawPointers
    /\ LET added == addRef(source[p], beginOp("increment", p, p))
       IN  refLog' = IF source[p] = Null THEN added
                     ELSE [added EXCEPT !.incremented[source[p]] = @ + 1]
    /\ UNCHANGED << source, wrapCall, libraryFrame >>

\* ~RefCountingPtr: release()
Destroy(p) ==
    /\ Constructed(p)
    /\ refLog' = release(source[p], beginOp("destroy", p, p))
    /\ source' = [source EXCEPT ![p] = NoPointer]
    /\ UNCHANGED << wrapCall, libraryFrame >>

NextRefCounting ==
    \/ \E p \in Pointers : DefaultConstruct(p)
    \/ \E p \in Pointers, object \in Objects : AdoptingConstruct(p, object)
    \/ \E p \in Pointers, other \in Pointers : CopyConstruct(p, other)
    \/ \E p \in Pointers, other \in Pointers : MoveConstruct(p, other)
    \/ \E p \in Pointers, other \in Pointers : CopyAssign(p, other)
    \/ \E p \in Pointers, other \in Pointers : MoveAssign(p, other)
    \/ \E p \in Pointers : incrementAndGetPointer(p)
    \/ \E p \in Pointers : Destroy(p)

SpecRefCounting == Init /\ [][NextRefCounting]_vars

Holders(object) == {p \in Pointers : source[p] = object}

\* the last operation called release() on the object
Released(object) ==
    \E i \in 1..Len(refLog.calls) : refLog.calls[i] = << "release", object >>

\* addRef() minus release() of every object is its holders, minus the
\* references the pointers adopted, plus the ones they handed out
CountsBalance ==
    \A object \in Objects :
        refLog.net[object] = Cardinality(Holders(object))
                                 - refLog.adopted[object]
                                 + refLog.incremented[object]

MovedFromIsNull ==
    refLog.op \in {"moveConstruct", "moveAssign"} => source[refLog.other] = Null

\* C37 as stated: the counts balance, a pointer that released an object no
\* longer holds it after the operation, and a moved-from pointer is null.
C37_NeverReleasesWhatItHolds ==
    /\ CountsBalance
    /\ \A object \in Objects :
           Released(object) => source[refLog.pointer] # object
    /\ MovedFromIsNull

\* C37: the counts balance and a moved-from pointer is null; a pointer that
\* released an object still holds it after the operation only when it was
\* assigned from a pointer holding that same object: in a copy assignment
\* (from itself included), where it added a reference before releasing one,
\* or in a move assignment from another pointer, whose reference it took.
C37_ReleasesOnlyWhenReassigned ==
    /\ CountsBalance
    /\ \A object \in Objects :
           Released(object) /\ source[refLog.pointer] = object =>
               \/ /\ refLog.op = "copyAssign"
                  /\ source[refLog.other] = object
                  /\ refLog.calls = << << "addRef", object >>,
                                       << "release", object >> >>
               \/ /\ refLog.op = "moveAssign"
                  /\ refLog.other # refLog.pointer
                  /\ source[refLog.other] = Null
                  /\ refLog.calls = << << "release", object >> >>
    /\ MovedFromIsNull

C37_Witness ==
    /\ refLog.op = "copyAssign"
    /\ refLog.pointer # refLog.other
    /\ \E object \in Objects :
           /\ Released(object)
           /\ Holders(object) = Pointers
           /\ refLog.adopted[object] = 1
           /\ refLog.net[object] = 1

\* the messages of a block of MIDI events, in order
Messages(midiEvents) == [i \in 1..Len(midiEvents) |-> midiEvents[i].message]

\* C34: the incoming MIDI buffer is empty when a callback ends; a callback
\* hands over only what it collected itself, to the sessions it processes
\* that have a MIDI event adapter, and nothing it collected stays behind for
\* a later callback: not in warm-up, not without an active session, not for
\* a session without the adapter.
C34_MidiStaysInItsCallback ==
    /\ [][audioPc = "end" /\ audioPc' = "idle" =>
             /\ incomingMIDI' = <<>>
             /\ \A s \in Sessions : delivered'[s] = <<>>]_vars
    /\ [][audioPc = "idle" /\ audioPc' # "idle" /\ hasMidiCollector =>
             /\ Messages(incomingMIDI') = midiCollector
             /\ midiCollector' = <<>>]_vars
    /\ [][audioPc # "idle" /\ audioPc' # "idle" =>
             incomingMIDI' = incomingMIDI]_vars
    /\ [](audioPc = "idle" /\ hasMidiCollector => incomingMIDI = <<>>)
    /\ [](\A s \in Sessions :
             delivered[s] # <<>> =>
                 /\ audioPc \in {"iterate", "end"}
                 /\ warmedUp(totalSamplesProcessed)
                 /\ \E i \in 1..Len(blockSessions) : blockSessions[i] = s
                 /\ midiEventQueue[s] # NoAdapter
                 /\ delivered[s] = enqueueAll(<<>>, incomingMIDI))

\* a callback past the warm-up has processed a session that has no MIDI
\* event adapter and is about to drop the block's messages
C34_Witness ==
    /\ audioPc = "end"
    /\ warmedUp(totalSamplesProcessed)
    /\ incomingMIDI # <<>>
    /\ blockSessions # <<>>
    /\ \A i \in 1..Len(blockSessions) :
           /\ midiEventQueue[blockSessions[i]] = NoAdapter
           /\ delivered[blockSessions[i]] = <<>>

\* ------------------------------------------------ adapters across programs
\* A host that loads, connects, unloads and loads again.
NextReload ==
    \/ \E s \in HostedSessions : createSession(s)
    \/ \E s \in HostedSessions : CallLoad(s)
    \/ \E s \in HostedSessions : CallUnload(s)
    \/ \E s \in HostedSessions, inputID \in {"audioIn", "midiIn", "missing"} :
          connectSessionInputEndpoint(s, inputID,
              IF inputID = "midiIn" THEN "defaultMidiIn" ELSE "defaultIn")
    \/ \E s \in HostedSessions :
          connectSessionOutputEndpoint(s, "audioOut", "defaultOut")
    \/ StopCheck
    \/ UnloadPerformer
    \/ UnloadSetState
    \/ LoadPerformer
    \/ LoadSetState

SpecReload == Init /\ [][NextReload]_vars

\* the adapters a session holds
HeldAdapters(s) ==
    { adapter \in {audioDeviceInputStream[s], audioDeviceOutputStream[s],
                   midiEventQueue[s]} : adapter # NoAdapter }

\* C31: every adapter a session holds is on an endpoint of the program its
\* Performer has, of the adapter's kind: once unload() has returned, or
\* while load() has unloaded the program before it, the session holds none.
C31_AdaptersOnLoadedProgram ==
    \A s \in Sessions :
        /\ HeldAdapters(s) # {} => hasProgram(performer[s])
        /\ audioDeviceInputStream[s] # NoAdapter =>
               /\ getInputSource(performer[s], audioDeviceInputStream[s].port)
               /\ isStream(PerformerInputs[audioDeviceInputStream[s].port])
        /\ midiEventQueue[s] # NoAdapter =>
               /\ getInputSource(performer[s], midiEventQueue[s].port)
               /\ isEvent(PerformerInputs[midiEventQueue[s].port])
        /\ audioDeviceOutputStream[s] # NoAdapter =>
               /\ getOutputSink(performer[s], audioDeviceOutputStream[s].port)
               /\ isStream(PerformerOutputs[audioDeviceOutputStream[s].port])

\* the frames [from, to) of the hardware buffer that a step of the stream
\* bridge went through: the offset moved on while the adapter stayed
Consumed(before, after) ==
    /\ before # NoAdapter
    /\ after # NoAdapter
    /\ after.id = before.id
    /\ after.bufferOffset # before.bufferOffset

\* C32: the offset of a stream bridge is 0 after setInputBuffer or
\* setOutputBuffer, otherwise only grows, by the frames of the request, and
\* the frames of every request lie within the hardware buffer.
C32_OffsetStaysInBuffer ==
    [][\A s \in Sessions :
          /\ \A bridge \in { << audioDeviceInputStream[s],
                                 audioDeviceInputStream'[s] >>,
                              << audioDeviceOutputStream[s],
                                 audioDeviceOutputStream'[s] >> } :
                Consumed(bridge[1], bridge[2]) =>
                    \/ /\ bridge[2].bufferOffset = 0
                       /\ bridge[2].bufferAvailable
                       /\ Advancing(s)'
                    \/ /\ streamResult'.done
                       /\ bridge[2].bufferOffset
                              = bridge[1].bufferOffset + streamResult'.frames
                       /\ bridge[2].bufferOffset <= bridge[1].numFrames
          /\ Advancing(s)' /\ ~ Advancing(s) =>
                /\ audioDeviceInputStream'[s] # NoAdapter =>
                       audioDeviceInputStream'[s].bufferOffset = 0
                /\ audioDeviceOutputStream'[s] # NoAdapter =>
                       audioDeviceOutputStream'[s].bufferOffset = 0]_vars

\* ------------------------------------------- the input bridge's scratch
\* One session on a device that stops and starts again, its input stream
\* connected at any time, its Performer asking for frames while it advances.
NextScratch ==
    \/ NextDevice
    \/ \E s \in HostedSessions :
          connectSessionInputEndpoint(s, "audioIn", "defaultIn")
    \/ \E s \in HostedSessions, requestedFrames \in FrameCounts :
          PerformerRequestsFrames(s, requestedFrames)

SpecScratch == Init /\ [][NextScratch]_vars

\* C33: the frames the input bridge copies into its scratch buffer for a
\* request are never more than the block length the buffer was allocated
\* for when the adapter was connected.
C33_RequestFitsScratch ==
    [][\A s \in Sessions :
          /\ Consumed(audioDeviceInputStream[s], audioDeviceInputStream'[s])
          /\ streamResult'.callback = "source"
          /\ streamResult'.done
          => streamResult'.frames <= audioDeviceInputStream[s].blockSize]_vars

\* ------------------------------------------- restart against the watchdog
\* audioDeviceAboutToStart in the two stores it begins with, which nothing
\* orders against the timer's thread: lastCallbackCount = 0
AboutToStartResetLast ==
    /\ audioDevice
    /\ ~ deviceStarted
    /\ audioPc = "idle"
    /\ terminations = 0
    /\ aboutToStart.pc = "idle"
    /\ lastCallbackCount' = 0
    /\ aboutToStart' = [aboutToStart EXCEPT !.pc = "audioCallbackCount"]
    /\ UNCHANGED << now, audioCallbackCount, lastCallbackCountChange,
                    terminations, lastAdvance, checkedAt >>
    /\ UNCHANGED << midiCollector, loadMeasurer, currentRateAndBlockSize,
                    deviceStarted >>
    /\ UNCHANGED restartFrame

\* audioCallbackCount = 0 and the rest of audioDeviceAboutToStart
AboutToStartResetCount ==
    /\ terminations = 0
    /\ aboutToStart.pc = "audioCallbackCount"
    /\ lockFree(activeSessionLock, "device")
    /\ audioCallbackCount' = 0
    /\ midiCollector' = <<>>
    /\ loadMeasurer' = "reset"
    /\ currentRateAndBlockSize' =
          [s \in Sessions |->
              IF InSeq(activeSessions, s)
                THEN updateDeviceProperties(deviceSampleRate, deviceBlockSize)
                ELSE currentRateAndBlockSize[s]]
    /\ deviceStarted' = TRUE
    /\ aboutToStart' = [pc |-> "idle", at |-> now]
    /\ UNCHANGED << now, lastCallbackCount, lastCallbackCountChange,
                    terminations, lastAdvance, checkedAt >>
    /\ UNCHANGED restartFrame

\* A device that runs, stops and starts again under the watchdog's timer.
NextRestart ==
    \/ Tick
    \/ timerCallback
    \/ terminations = 0 /\ audioDeviceStopped
    \/ AboutToStartResetLast
    \/ AboutToStartResetCount
    \/ AudioCallbackBegin
    \/ AudioCallbackLock
    \/ AudioCallbackUnlock
    \/ AudioCallbackEnd

SpecRestart == Init /\ [][NextRestart]_vars

\* C35: once the device has started again, the watchdog terminates only
\* after a check that saw the callback count change after the restart, so
\* not on a count it last saw change before the restart.
C35_RestartDisarmsWatchdog ==
    /\ aboutToStart.pc = "idle" /\ aboutToStart.at >= 0
    /\ terminations = 1
    /\ checkedAt > aboutToStart.at
    => lastCallbackCountChange >= aboutToStart.at
====
